---- MODULE Spec2Model ----
(***************************************************************************)
(* Context-Engine MCP server: the bounded expiring cache (CacheManager),   *)
(* the validated file store (FileManager) and the analysis orchestrator    *)
(* (ContextEngine), modelled as state machines.                            *)
(*                                                                         *)
(* Specifications:                                                         *)
(*   Spec        one CacheManager instance under set/get/has/delete/       *)
(*               cleanup/clear and the passage of time                     *)
(*   SpecStore   the FileManager called directly: readFile, writeFile,     *)
(*               deleteFile, clearCache on arbitrary path strings          *)
(*   SpecEdit    editMultipleFiles calls on a project, one change per step *)
(*   SpecEngine  analyzeProject, editMultipleFiles and clearAllCaches on a *)
(*               project, interleaved, with file tasks that can fail       *)
(*   SpecBatch   analyzeProject on a project of more files than one batch  *)
(***************************************************************************)
EXTENDS Integers, Sequences, FiniteSets, TLC

(***************************************************************************)
(* Bounds of the model                                                     *)
(***************************************************************************)
\* Date.now() is followed up to this instant
MaxNow == 2
\* accessCounter is followed up to this value (clear() resets it)
MaxCounter == 4
\* Date.now() is followed up to this instant in SpecStore
MaxStoreNow == 1
\* accessCounter of the file cache is followed up to this value in SpecStore
MaxStoreCounter == 2
\* Date.now() is followed up to this instant in SpecEdit
MaxEditNow == 1
\* the number of editMultipleFiles calls followed in SpecEdit
MaxEditCalls == 1
\* the core changes are combined into lists of up to this length in SpecEdit
MaxChanges == 2
\* the number of ContextEngine calls followed in SpecEngine
MaxEngineCalls == 3
\* the hours (and a millisecond each) that pass in SpecEngine
MaxEngineHours == 1
\* the number of files of the project of SpecBatch
MaxBatchFiles == 11
\* the number of analyzeProject calls followed in SpecBatch
MaxBatchCalls == 1
\* the longest candidate path, in segments, given to validateProjectBoundaries
MaxBoundarySegs == 2
\* the number of set and get calls followed in SpecEvict
MaxEvictCalls == 2
\* the number of ContextEngine calls followed in SpecSearch
MaxSearchCalls == 3

\* keys, values and TTLs offered to the cache instance of Spec
Keys == {"k1", "k2", "k3"}
Values == {"v1", "v2"}
TTLs == {0, 1}
\* configured maxCacheSize values of the cache instance of Spec
MaxSizes == {1, 2}

(***************************************************************************)
(* Generic helpers                                                         *)
(***************************************************************************)
Restrict(f, S) == [x \in S |-> f[x]]

Min(a, b) == IF a <= b THEN a ELSE b

\* position of x in the sequence s (0 when absent)
IndexOf(s, x) == IF \E i \in 1..Len(s) : s[i] = x
                 THEN CHOOSE i \in 1..Len(s) : s[i] = x
                 ELSE 0

RemoveAll(s, S) == SelectSeq(s, LAMBDA x : x \notin S)

(***************************************************************************)
(* CacheManager (src/src/services/cache-manager.ts)                        *)
(*                                                                         *)
(* A cache instance is a record                                            *)
(*   cache         : key -> [data, timestamp, expiresAt]  (the Map)        *)
(*   accessOrder   : key -> rank                          (the LRU Map)    *)
(*   accessCounter : the last rank handed out                              *)
(* expiresAt = 0 stands for an entry without the expiresAt property (the   *)
(* code tests it for truthiness, so 0 and absent behave alike).            *)
(***************************************************************************)
Undefined == "undefined"

EmptyCache == [cache |-> <<>>, accessOrder |-> <<>>, accessCounter |-> 0]

\* (entry as any).expiresAt && Date.now() > (entry as any).expiresAt
IsExpired_AtDeadline(e, t) == e.expiresAt # 0 /\ t >= e.expiresAt

IsExpired(e, t) == e.expiresAt # 0 /\ t > e.expiresAt

CM_delete_Keep(c, k) == [c |-> c, deleted |-> FALSE]

\* a delete that leaves the access rank of the key behind
CM_delete_CacheOnly(c, k) ==
  [c |-> [c EXCEPT !.cache = Restrict(c.cache, DOMAIN c.cache \ {k})],
   deleted |-> k \in DOMAIN c.cache]

\* delete(key): both maps lose the key; returns whether cache held it
CM_delete(c, k) ==
  [c |-> [c EXCEPT !.cache = Restrict(c.cache, DOMAIN c.cache \ {k}),
                   !.accessOrder = Restrict(c.accessOrder, DOMAIN c.accessOrder \ {k})],
   deleted |-> k \in DOMAIN c.cache]

RECURSIVE CM_deleteAll(_, _)
CM_deleteAll(c, ks) ==
  IF ks = <<>> THEN c
  ELSE CM_deleteAll(CM_delete(c, Head(ks)).c, Tail(ks))

\* Array.from(accessOrder.entries()).sort(([,a],[,b]) => a - b), keys only
RECURSIVE sortedByAccess(_, _)
sortedByAccess(order, S) ==
  IF S = {} THEN <<>>
  ELSE LET m == CHOOSE k \in S : \A j \in S : order[k] <= order[j]
       IN <<m>> \o sortedByAccess(order, S \ {m})

RECURSIVE sortedByAccess_Desc(_, _)
sortedByAccess_Desc(order, S) ==
  IF S = {} THEN <<>>
  ELSE LET m == CHOOSE k \in S : \A j \in S : order[k] >= order[j]
       IN <<m>> \o sortedByAccess_Desc(order, S \ {m})

toRemove_One(maxSize) == 1

\* Math.floor(maxSize * 0.1) || 1
toRemove(maxSize) == IF maxSize \div 10 = 0 THEN 1 ELSE maxSize \div 10

CM_enforceMaxSize_Strict(c, maxSize) ==
  IF Cardinality(DOMAIN c.cache) > maxSize
  THEN LET sorted == sortedByAccess(c.accessOrder, DOMAIN c.accessOrder)
           n == Min(toRemove(maxSize), Len(sorted))
       IN CM_deleteAll(c, SubSeq(sorted, 1, n))
  ELSE c

CM_enforceMaxSize_MRU(c, maxSize) ==
  IF Cardinality(DOMAIN c.cache) >= maxSize
  THEN LET sorted == sortedByAccess_Desc(c.accessOrder, DOMAIN c.accessOrder)
           n == Min(toRemove(maxSize), Len(sorted))
       IN CM_deleteAll(c, SubSeq(sorted, 1, n))
  ELSE c

CM_enforceMaxSize(c, maxSize) ==
  IF Cardinality(DOMAIN c.cache) >= maxSize
  THEN LET sorted == sortedByAccess(c.accessOrder, DOMAIN c.accessOrder)
           n == Min(toRemove(maxSize), Len(sorted))
       IN CM_deleteAll(c, SubSeq(sorted, 1, n))
  ELSE c

\* the keys enforceMaxSize removes from c
Evicted(c, maxSize) == DOMAIN c.cache \ DOMAIN CM_enforceMaxSize(c, maxSize).cache

\* a set that inserts first and enforces the limit afterwards
CM_set_EvictAfter(c, k, v, ttl, t, maxSize) ==
  LET entry == [data |-> v, timestamp |-> t,
                expiresAt |-> IF ttl > 0 THEN t + ttl ELSE 0]
      ks == DOMAIN c.cache \cup {k}
      os == DOMAIN c.accessOrder \cup {k}
  IN CM_enforceMaxSize(
       [cache |-> [x \in ks |-> IF x = k THEN entry ELSE c.cache[x]],
        accessOrder |-> [x \in os |-> IF x = k THEN c.accessCounter + 1
                                      ELSE c.accessOrder[x]],
        accessCounter |-> c.accessCounter + 1], maxSize)

\* set(key, value, ttlMs) at time t
CM_set(c, k, v, ttl, t, maxSize) ==
  LET entry == [data |-> v, timestamp |-> t,
                expiresAt |-> IF ttl > 0 THEN t + ttl ELSE 0]
      c1 == CM_enforceMaxSize(c, maxSize)
      ks == DOMAIN c1.cache \cup {k}
      os == DOMAIN c1.accessOrder \cup {k}
  IN [cache |-> [x \in ks |-> IF x = k THEN entry ELSE c1.cache[x]],
      accessOrder |-> [x \in os |-> IF x = k THEN c1.accessCounter + 1
                                    ELSE c1.accessOrder[x]],
      accessCounter |-> c1.accessCounter + 1]

\* get(key) at time t
CM_get(c, k, t) ==
  IF k \notin DOMAIN c.cache
  THEN [c |-> c, hit |-> FALSE, data |-> Undefined]
  ELSE IF IsExpired(c.cache[k], t)
  THEN [c |-> CM_delete(c, k).c, hit |-> FALSE, data |-> Undefined]
  ELSE [c |-> [c EXCEPT !.accessOrder =
                          [x \in DOMAIN c.accessOrder \cup {k} |->
                             IF x = k THEN c.accessCounter + 1 ELSE c.accessOrder[x]],
                        !.accessCounter = c.accessCounter + 1],
        hit |-> TRUE, data |-> c.cache[k].data]

\* a has that counts as an access, like get
CM_has_Touch(c, k, t) == [c |-> CM_get(c, k, t).c, result |-> CM_get(c, k, t).hit]

\* has(key) at time t
CM_has(c, k, t) ==
  IF k \notin DOMAIN c.cache
  THEN [c |-> c, result |-> FALSE]
  ELSE IF IsExpired(c.cache[k], t)
  THEN [c |-> CM_delete(c, k).c, result |-> FALSE]
  ELSE [c |-> c, result |-> TRUE]

CM_cleanup_Nothing(c, t) == [c |-> c, removed |-> 0]

\* a cleanup that also removes the entries at their deadline
CM_cleanup_AtDeadline(c, t) ==
  LET dead == {k \in DOMAIN c.cache : IsExpired_AtDeadline(c.cache[k], t)}
  IN [c |-> [c EXCEPT !.cache = Restrict(c.cache, DOMAIN c.cache \ dead),
                      !.accessOrder = Restrict(c.accessOrder, DOMAIN c.accessOrder \ dead)],
      removed |-> Cardinality(dead)]

\* cleanup() at time t
CM_cleanup(c, t) ==
  LET dead == {k \in DOMAIN c.cache : IsExpired(c.cache[k], t)}
  IN [c |-> [c EXCEPT !.cache = Restrict(c.cache, DOMAIN c.cache \ dead),
                      !.accessOrder = Restrict(c.accessOrder, DOMAIN c.accessOrder \ dead)],
      removed |-> Cardinality(dead)]

CM_clear_Nothing(c) == c

CM_clear_Order(c) == [c EXCEPT !.accessOrder = <<>>, !.accessCounter = 0]

\* clear()
CM_clear(c) == [cache |-> <<>>, accessOrder |-> <<>>, accessCounter |-> 0]

CM_size(c) == Cardinality(DOMAIN c.cache)

\* getStats(): size and maxSize (oldestEntry, newestEntry and memoryUsage
\* follow the insertion order and the byte size of the entries, which the
\* model does not keep)
CM_getStats(c, maxSize) == [size |-> Cardinality(DOMAIN c.cache), maxSize |-> maxSize]

(***************************************************************************)
(* Paths (node:path, POSIX)                                                *)
(*                                                                         *)
(* A path string is a record [abs, segs]: whether it starts with "/" and   *)
(* its segments; [abs |-> FALSE, segs |-> <<>>] is the empty string.       *)
(* Chars spells a segment so that includes('..') and startsWith are        *)
(* computed on the characters, as String.prototype does.                   *)
(***************************************************************************)
Chars(s) ==
  CASE s = ".."    -> <<".", ".">>
    [] s = "v..1"  -> <<"v", ".", ".", "1">>
    [] s = "a.ts"  -> <<"a", ".", "ts">>
    [] s = "b.ts"  -> <<"b", ".", "ts">>
    [] s = "c.ts"  -> <<"c", ".", "ts">>
    [] s = "x.ts"  -> <<"x", ".", "ts">>
    [] s = "p-x"   -> <<"p", "-", "x">>
    [] s = "n.bin" -> <<"n", ".", "bin">>
    [] OTHER       -> <<s>>

RECURSIVE JoinChars(_)
JoinChars(segs) ==
  IF segs = <<>> THEN <<>>
  ELSE IF Len(segs) = 1 THEN Chars(segs[1])
  ELSE Chars(segs[1]) \o <<"/">> \o JoinChars(Tail(segs))

\* the characters of the path string
StrOf(p) == IF p.abs THEN <<"/">> \o JoinChars(p.segs) ELSE JoinChars(p.segs)

\* str.includes('..')
includesDotDot(str) == \E i \in 1..(Len(str) - 1) : str[i] = "." /\ str[i + 1] = "."

\* str.startsWith(prefix)
startsWith(str, prefix) ==
  Len(prefix) <= Len(str) /\ SubSeq(str, 1, Len(prefix)) = prefix

RECURSIVE normSegs(_, _, _)
normSegs(segs, acc, abs) ==
  IF segs = <<>> THEN acc
  ELSE IF Head(segs) = "." THEN normSegs(Tail(segs), acc, abs)
  ELSE IF Head(segs) = ".."
       THEN IF acc # <<>> /\ acc[Len(acc)] # ".."
            THEN normSegs(Tail(segs), SubSeq(acc, 1, Len(acc) - 1), abs)
            ELSE IF abs THEN normSegs(Tail(segs), acc, abs)
                 ELSE normSegs(Tail(segs), Append(acc, ".."), abs)
       ELSE normSegs(Tail(segs), Append(acc, Head(segs)), abs)

\* path.normalize: a relative path that cancels out is "."
normalize(p) ==
  LET n == normSegs(p.segs, <<>>, p.abs)
  IN [abs |-> p.abs, segs |-> IF ~p.abs /\ n = <<>> THEN <<".">> ELSE n]

\* path.isAbsolute
isAbsolute(p) == p.abs

\* process.cwd()
Cwd == [abs |-> TRUE, segs |-> <<"w">>]

\* path.resolve(p)
resolve(p) ==
  IF p.abs THEN normalize(p)
  ELSE normalize([abs |-> TRUE, segs |-> Cwd.segs \o p.segs])

\* path.resolve(a, b)
resolve2(a, b) ==
  IF b.abs THEN normalize(b)
  ELSE normalize([abs |-> TRUE, segs |-> resolve(a).segs \o b.segs])

\* path.dirname / path.basename of an absolute normalized path
dirname(p) ==
  IF p.segs = <<>> THEN p
  ELSE [abs |-> p.abs, segs |-> SubSeq(p.segs, 1, Len(p.segs) - 1)]

basename(p) == IF p.segs = <<>> THEN "" ELSE p.segs[Len(p.segs)]

\* path.relative(from, to), both resolved; to lies under from in every use
relative(from, to) ==
  LET rel(f, t) ==
        IF Len(t) >= Len(f) /\ SubSeq(t, 1, Len(f)) = f
        THEN [abs |-> FALSE, segs |-> SubSeq(t, Len(f) + 1, Len(t))]
        ELSE [abs |-> FALSE, segs |-> [i \in 1..Len(f) |-> ".."] \o t]
  IN rel(resolve(from).segs, resolve(to).segs)

\* path.extname(name).toLowerCase(), without the dot ("" when there is none)
extname(name) ==
  LET cs == Chars(name)
      dots == {i \in 1..Len(cs) : cs[i] = "."}
  IN IF dots = {} \/ name = ".." THEN ""
     ELSE LET i == CHOOSE d \in dots : \A e \in dots : e <= d
          IN IF i = 1 \/ i = Len(cs) THEN "" ELSE cs[i + 1]

(***************************************************************************)
(* Validation (src/utils/validation.ts, held in src/src/index.ts)          *)
(***************************************************************************)
EmptyPath == [abs |-> FALSE, segs |-> <<>>]

\* validatePath(inputPath): [err, path]
validatePath(p) ==
  IF p = EmptyPath THEN [err |-> "INVALID_PATH", path |-> p]
  ELSE IF includesDotDot(StrOf(normalize(p)))
  THEN [err |-> "INVALID_PATH", path |-> p]
  ELSE [err |-> "", path |-> normalize(p)]

validateFileSize_AsNotFound(size, maxSize) == IF size > maxSize THEN "FILE_NOT_FOUND" ELSE ""

\* validateFileSize(size, maxSize): throws ValidationError
validateFileSize(size, maxSize) == IF size > maxSize THEN "VALIDATION_ERROR" ELSE ""

\* isPathWithinDirectory(targetPath, baseDirectory)
isPathWithinDirectory(target, base) ==
  LET rt == StrOf(resolve(target))
      rb == StrOf(resolve(base))
  IN startsWith(rt, rb \o <<"/">>) \/ rt = rb

\* FilePathSchema refinement
FilePathSchema(p) ==
  /\ p # EmptyPath
  /\ ~includesDotDot(StrOf(normalize(p)))
  /\ ~isAbsolute(normalize(p))

\* ProjectPathSchema refinement
ProjectPathSchema(p) ==
  /\ p # EmptyPath
  /\ ~includesDotDot(StrOf(resolve(p)))

(***************************************************************************)
(* Configuration (src/src/config/index.ts) and file contents               *)
(***************************************************************************)
\* maxFileSize: 10 * 1024 * 1024
maxFileSize == 10485760
\* TTL of fileInfo entries and of project contexts
CacheTTL == 3600000
\* backupDirectory
backupDirectory == ".context-engine-backups"
\* milliseconds per calendar day, for the date part of toISOString()
MsPerDay == 86400000

\* Buffer.byteLength(content) / stats.size
SizeOf(content) ==
  CASE content = ""    -> 0
    [] content = "BIG" -> maxFileSize + 1
    [] OTHER           -> 2

\* the number of lines of the long content "cM", each of them "f"
LongFileLines == 21

\* content.split('\n').length
LinesOf(content) ==
  CASE content = "c2" -> 2
    [] content = "cM" -> LongFileLines
    [] OTHER          -> 1

\* crypto md5 of the content
generateFileHash(content) == <<"md5", content>>

supportedExtensions ==
  {"js", "jsx", "mjs", "cjs", "ts", "tsx", "py", "pyw", "java", "cs", "cpp", "cxx",
   "cc", "c++", "c", "h", "hpp", "php", "rb", "go", "rs", "vue", "svelte", "html",
   "htm", "css", "scss", "sass", "less", "json", "yml", "yaml", "md", "txt", "xml",
   "sql"}

detectLanguage(name) ==
  LET languageMap(e) ==
        CASE e \in {"js", "jsx", "mjs", "cjs"} -> "javascript"
          [] e \in {"ts", "tsx"} -> "typescript"
          [] e \in {"py", "pyw"} -> "python"
          [] e = "java" -> "java"
          [] e = "cs" -> "csharp"
          [] e \in {"cpp", "cxx", "cc", "c++", "hpp"} -> "cpp"
          [] e \in {"c", "h"} -> "c"
          [] e = "php" -> "php"
          [] e = "rb" -> "ruby"
          [] e = "go" -> "go"
          [] e = "rs" -> "rust"
          [] e = "vue" -> "vue"
          [] e = "svelte" -> "svelte"
          [] OTHER -> "text"
  IN languageMap(extname(name))

(***************************************************************************)
(* FileManager (file-manager.ts, held in src/unnamed/part_001)             *)
(*                                                                         *)
(* The file system is a record                                             *)
(*   files   : absolute path segments -> [content]                         *)
(*   dirs    : the directories, as absolute path segments                  *)
(*   backups : [dir, day, name, stamp] -> content, the backup files        *)
(*             <dir>/<backupDirectory>/<day>/<name>.<stamp>.backup         *)
(*             (kept apart from files: no operation reads them back)       *)
(* Every operation takes the file system, the file cache, the time and a   *)
(* fault (the I/O call that fails in this run, "none" for none) and        *)
(* returns the new file system and cache with err ("" on success).         *)
(***************************************************************************)
Prefixes(segs) == {SubSeq(segs, 1, n) : n \in 0..Len(segs)}

ContentKey(abs) == <<"content", abs.segs>>
FileInfoKey(abs) == <<"fileInfo", abs.segs>>

\* fs.access succeeds
Exists(fs, segs) == segs \in DOMAIN fs.files \/ segs \in fs.dirs

\* fileExists(filePath)
FM_fileExists(fs, p) ==
  LET v == validatePath(p)
  IN v.err = "" /\ Exists(fs, resolve(v.path).segs)

\* ensureDirectory(dirPath): fs.mkdir(dirPath, {recursive: true})
FM_ensureDirectory(fs, dir, fault) ==
  IF fault = "mkdir" \/ \E pre \in Prefixes(dir.segs) : pre \in DOMAIN fs.files
  THEN [fs |-> fs, err |-> "PROCESSING_ERROR"]
  ELSE [fs |-> [fs EXCEPT !.dirs = fs.dirs \cup Prefixes(dir.segs)], err |-> ""]

\* the date part of new Date(t).toISOString()
DayOf(t) == ToString(t \div MsPerDay)

\* the backup file createBackup writes for filePath at time t
BackupKey_InCwd(abs, t) ==
  [dir |-> Cwd.segs, day |-> DayOf(t), name |-> basename(abs), stamp |-> t]

BackupKey(abs, t) ==
  [dir |-> dirname(abs).segs, day |-> DayOf(t), name |-> basename(abs), stamp |-> t]

FM_createBackup_Move(fs, abs, t, fault) ==
  LET \* readFile and writeFile of the backup, the directory made (d)
      copy(k, d) ==
        IF d.err # "" THEN fs
        ELSE IF fault = "backup" \/ abs.segs \notin DOMAIN d.fs.files THEN d.fs
        ELSE [d.fs EXCEPT !.backups =
                [x \in DOMAIN d.fs.backups \cup {k} |->
                   IF x = k THEN fs.files[abs.segs].content ELSE d.fs.backups[x]],
                          !.files = Restrict(d.fs.files, DOMAIN d.fs.files \ {abs.segs})]
      backup(k) ==
        copy(k, FM_ensureDirectory(fs, [abs |-> TRUE,
                                        segs |-> k.dir \o <<backupDirectory, k.day>>], fault))
  IN IF ~FM_fileExists(fs, abs) THEN fs ELSE backup(BackupKey(abs, t))

\* createBackup(filePath): every failure is swallowed, the backup directory
\* made before the failure stays
FM_createBackup(fs, abs, t, fault) ==
  LET \* readFile and writeFile of the backup, the directory made (d)
      copy(k, d) ==
        IF d.err # "" THEN fs
        ELSE IF fault = "backup" \/ abs.segs \notin DOMAIN d.fs.files THEN d.fs
        ELSE [d.fs EXCEPT !.backups =
                [x \in DOMAIN d.fs.backups \cup {k} |->
                   IF x = k THEN fs.files[abs.segs].content ELSE d.fs.backups[x]]]
      backup(k) ==
        copy(k, FM_ensureDirectory(fs, [abs |-> TRUE,
                                        segs |-> k.dir \o <<backupDirectory, k.day>>], fault))
  IN IF ~FM_fileExists(fs, abs) THEN fs ELSE backup(BackupKey(abs, t))

\* fs.writeFile(absolutePath, content)
FsWriteFails(fs, abs, fault) ==
  \/ fault = "write"
  \/ abs.segs = <<>>
  \/ dirname(abs).segs \notin fs.dirs
  \/ abs.segs \in fs.dirs

FM_writeFile_NoCacheUpdate(fs, fc, p, content, createBackup, ensureDirectory, t, fault, maxSize) ==
  LET v == validatePath(p)
      \* fs.writeFile and fileCache.set, on the disk createBackup left (fs2)
      write(abs, fs2) ==
        IF FsWriteFails(fs2, abs, fault)
        THEN [fs |-> fs2, fc |-> fc, err |-> "PROCESSING_ERROR"]
        ELSE [fs |-> [fs2 EXCEPT !.files =
                        [x \in DOMAIN fs2.files \cup {abs.segs} |->
                           IF x = abs.segs THEN [content |-> content] ELSE fs2.files[x]]],
              fc |-> fc,
              err |-> ""]
      \* createBackup, after ensureDirectory answered d
      backup(abs, d) ==
        IF d.err # "" THEN [fs |-> d.fs, fc |-> fc, err |-> d.err]
        ELSE write(abs, IF createBackup THEN FM_createBackup(d.fs, abs, t, fault) ELSE d.fs)
      ensure(abs) ==
        backup(abs, IF ensureDirectory THEN FM_ensureDirectory(fs, dirname(abs), fault)
                    ELSE [fs |-> fs, err |-> ""])
  IN IF v.err # "" THEN [fs |-> fs, fc |-> fc, err |-> v.err]
     ELSE IF validateFileSize(SizeOf(content), maxFileSize) # ""
     THEN [fs |-> fs, fc |-> fc, err |-> "VALIDATION_ERROR"]
     ELSE ensure(resolve(v.path))

\* writeFile(filePath, content, {createBackup, ensureDirectory})
FM_writeFile(fs, fc, p, content, createBackup, ensureDirectory, t, fault, maxSize) ==
  LET v == validatePath(p)
      \* fs.writeFile and fileCache.set, on the disk createBackup left (fs2)
      write(abs, fs2) ==
        IF FsWriteFails(fs2, abs, fault)
        THEN [fs |-> fs2, fc |-> fc, err |-> "PROCESSING_ERROR"]
        ELSE [fs |-> [fs2 EXCEPT !.files =
                        [x \in DOMAIN fs2.files \cup {abs.segs} |->
                           IF x = abs.segs THEN [content |-> content] ELSE fs2.files[x]]],
              fc |-> CM_set(fc, ContentKey(abs), content, 0, t, maxSize),
              err |-> ""]
      \* createBackup, after ensureDirectory answered d
      backup(abs, d) ==
        IF d.err # "" THEN [fs |-> d.fs, fc |-> fc, err |-> d.err]
        ELSE write(abs, IF createBackup THEN FM_createBackup(d.fs, abs, t, fault) ELSE d.fs)
      ensure(abs) ==
        backup(abs, IF ensureDirectory THEN FM_ensureDirectory(fs, dirname(abs), fault)
                    ELSE [fs |-> fs, err |-> ""])
  IN IF v.err # "" THEN [fs |-> fs, fc |-> fc, err |-> v.err]
     ELSE IF validateFileSize(SizeOf(content), maxFileSize) # ""
     THEN [fs |-> fs, fc |-> fc, err |-> "VALIDATION_ERROR"]
     ELSE ensure(resolve(v.path))

FM_deleteFile_BackupFatal(fs, fc, p, createBackup, t, fault) ==
  LET v == validatePath(p)
      \* fs.unlink and fileCache.delete, on the disk createBackup left (fs2)
      unlink(abs, fs2) ==
        IF fault = "unlink" \/ abs.segs \notin DOMAIN fs2.files
        THEN [fs |-> fs2, fc |-> fc, err |-> "PROCESSING_ERROR"]
        ELSE [fs |-> [fs2 EXCEPT !.files = Restrict(fs2.files, DOMAIN fs2.files \ {abs.segs})],
              fc |-> CM_delete(fc, ContentKey(abs)).c, err |-> ""]
      delete(abs) ==
        IF ~FM_fileExists(fs, abs) THEN [fs |-> fs, fc |-> fc, err |-> ""]
        ELSE IF createBackup /\ fault = "backup"
        THEN [fs |-> fs, fc |-> fc, err |-> "PROCESSING_ERROR"]
        ELSE unlink(abs, IF createBackup THEN FM_createBackup(fs, abs, t, fault) ELSE fs)
  IN IF v.err # "" THEN [fs |-> fs, fc |-> fc, err |-> v.err]
     ELSE delete(resolve(v.path))

\* deleteFile(filePath, createBackup)
FM_deleteFile(fs, fc, p, createBackup, t, fault) ==
  LET v == validatePath(p)
      \* fs.unlink and fileCache.delete, on the disk createBackup left (fs2)
      unlink(abs, fs2) ==
        IF fault = "unlink" \/ abs.segs \notin DOMAIN fs2.files
        THEN [fs |-> fs2, fc |-> fc, err |-> "PROCESSING_ERROR"]
        ELSE [fs |-> [fs2 EXCEPT !.files = Restrict(fs2.files, DOMAIN fs2.files \ {abs.segs})],
              fc |-> CM_delete(fc, ContentKey(abs)).c, err |-> ""]
      delete(abs) ==
        IF ~FM_fileExists(fs, abs) THEN [fs |-> fs, fc |-> fc, err |-> ""]
        ELSE unlink(abs, IF createBackup THEN FM_createBackup(fs, abs, t, fault) ELSE fs)
  IN IF v.err # "" THEN [fs |-> fs, fc |-> fc, err |-> v.err]
     ELSE delete(resolve(v.path))

\* JavaScript truthiness of a cached value: the empty string is falsy
Truthy(v) == v # Undefined /\ v # ""

\* readFile(filePath, useCache): [fc, err, content]
FM_readFile(fs, fc, p, useCache, t, fault, maxSize) ==
  LET v == validatePath(p)
      \* after the cache lookup g: the cached content, or stat and read
      read(abs, g) ==
        LET content == fs.files[abs.segs].content
        IN IF g.hit /\ Truthy(g.data) THEN [fc |-> g.c, err |-> "", content |-> g.data]
           ELSE IF fault = "stat" \/ ~Exists(fs, abs.segs)
           THEN [fc |-> g.c, err |-> "FILE_NOT_FOUND", content |-> Undefined]
           ELSE IF /\ abs.segs \in DOMAIN fs.files
                   /\ validateFileSize(SizeOf(content), maxFileSize) # ""
           THEN [fc |-> g.c, err |-> "VALIDATION_ERROR", content |-> Undefined]
           ELSE IF fault = "read" \/ abs.segs \notin DOMAIN fs.files
           THEN [fc |-> g.c, err |-> "PROCESSING_ERROR", content |-> Undefined]
           ELSE [fc |-> IF useCache THEN CM_set(g.c, ContentKey(abs), content, 0, t, maxSize)
                        ELSE g.c,
                 err |-> "", content |-> content]
      lookup(abs) ==
        read(abs, IF useCache THEN CM_get(fc, ContentKey(abs), t)
                  ELSE [c |-> fc, hit |-> FALSE, data |-> Undefined])
  IN IF v.err # "" THEN [fc |-> fc, err |-> v.err, content |-> Undefined]
     ELSE lookup(resolve(v.path))

(***************************************************************************)
(* State                                                                   *)
(***************************************************************************)
VARIABLES
  now,           \* Date.now()
  maxCacheSize,  \* configManager.get('maxCacheSize')
  cm,            \* the cache instance of Spec
  ret,           \* what the last cache operation of Spec did and returned
  recency,       \* the keys of cm from least to most recently accessed
  fs,            \* the file system: files, directories, backup files
  fileCache,     \* the fileCache instance
  sret,          \* what the last FileManager call of SpecStore did and returned
  projectCache,  \* the projectCache instance
  analysisCache, \* the analysisCache instance
  watchedProjects, \* ContextEngine.watchedProjects
  ed,            \* the editMultipleFiles call in flight
  an,            \* the analyzeProject call in flight
  eret,          \* what the last ContextEngine call did and returned
  calls,         \* the number of ContextEngine calls made so far
  hist           \* the files returned contexts have held and edits have updated since

vars == <<now, maxCacheSize, cm, ret, recency, fs, fileCache, sret, projectCache,
          analysisCache, watchedProjects, ed, an, eret, calls, hist>>
cacheVars == <<cm, ret, recency>>
storeVars == <<fs, fileCache, sret>>
auxVars == <<analysisCache, watchedProjects>>
engineVars == <<projectCache, auxVars, ed, an, eret, calls, hist>>

NoRet == [op |-> "none", key |-> "", hit |-> FALSE, data |-> Undefined, ttl |-> 0,
          evicted |-> {}, removed |-> 0, sizeBefore |-> 0, wasHeld |-> FALSE]

\* last: for each absolute path, the last writeFile or deleteFile of it that
\* succeeded
NoSRet == [op |-> "none", path |-> EmptyPath, err |-> "", content |-> Undefined,
           useCache |-> FALSE, createBackup |-> FALSE, fault |-> "none", last |-> <<>>]

\* no editMultipleFiles call is in flight
NoEdit == [pc |-> "idle", root |-> EmptyPath, changes |-> <<>>, i |-> 0, results |-> <<>>,
           applied |-> <<>>, faults |-> <<>>]

\* no analyzeProject call is in flight
NoAnalysis == [pc |-> "idle", root |-> EmptyPath, force |-> FALSE, files |-> <<>>, i |-> 0,
               pending |-> {}, fileInfoMap |-> <<>>, order |-> <<>>,
               started |-> {}, resolved |-> {}, failed |-> {},
               overlap |-> FALSE, updated |-> {}, cleared |-> "no",
               dropped |-> FALSE]

NoHist == [analysed |-> {}, updated |-> {}]

NoERet == [op |-> "none"]

\* the project directory /w/p holds a.ts; x.ts and big.ts, a file above the
\* size limit, lie next to it, outside
InitFs ==
  [files |-> (<<"w", "p", "a.ts">> :> [content |-> "c1"]
              @@ <<"w", "x.ts">> :> [content |-> "c1"]
              @@ <<"w", "big.ts">> :> [content |-> "BIG"]),
   dirs |-> {<<>>, <<"w">>, <<"w", "p">>},
   backups |-> <<>>]

InitCacheVars ==
  /\ cm = EmptyCache
  /\ ret = NoRet
  /\ recency = <<>>

InitStoreVars ==
  /\ fs = InitFs
  /\ fileCache = EmptyCache
  /\ sret = NoSRet

InitEngineVars ==
  /\ projectCache = EmptyCache
  /\ analysisCache = EmptyCache
  /\ watchedProjects = {}
  /\ ed = NoEdit
  /\ an = NoAnalysis
  /\ eret = NoERet
  /\ calls = 0
  /\ hist = NoHist

Init ==
  /\ now = 0
  /\ maxCacheSize \in MaxSizes
  /\ InitCacheVars
  /\ InitStoreVars
  /\ InitEngineVars

(***************************************************************************)
(* Operations on the cache instance                                        *)
(***************************************************************************)
Set(k, v, ttl) ==
  /\ cm.accessCounter < MaxCounter
  /\ cm' = CM_set(cm, k, v, ttl, now, maxCacheSize)
  /\ ret' = [NoRet EXCEPT !.op = "set", !.key = k, !.data = v, !.ttl = ttl,
                          !.evicted = Evicted(cm, maxCacheSize),
                          !.sizeBefore = CM_size(cm), !.wasHeld = k \in DOMAIN cm.cache]
  /\ recency' = Append(RemoveAll(recency, Evicted(cm, maxCacheSize) \cup {k}), k)
  /\ UNCHANGED <<now, maxCacheSize, storeVars, engineVars>>

Get(k) ==
  /\ cm.accessCounter < MaxCounter
  /\ LET r == CM_get(cm, k, now)
     IN /\ cm' = r.c
        /\ ret' = [NoRet EXCEPT !.op = "get", !.key = k, !.hit = r.hit, !.data = r.data,
                                !.wasHeld = k \in DOMAIN cm.cache]
        /\ recency' = IF r.hit THEN Append(RemoveAll(recency, {k}), k)
                      ELSE RemoveAll(recency, {k})
  /\ UNCHANGED <<now, maxCacheSize, storeVars, engineVars>>

Has(k) ==
  /\ LET r == CM_has(cm, k, now)
     IN /\ cm' = r.c
        /\ ret' = [NoRet EXCEPT !.op = "has", !.key = k, !.hit = r.result,
                                !.wasHeld = k \in DOMAIN cm.cache]
        /\ recency' = IF r.result THEN recency ELSE RemoveAll(recency, {k})
  /\ UNCHANGED <<now, maxCacheSize, storeVars, engineVars>>

Delete(k) ==
  /\ LET r == CM_delete(cm, k)
     IN /\ cm' = r.c
        /\ ret' = [NoRet EXCEPT !.op = "delete", !.key = k, !.hit = r.deleted]
  /\ recency' = RemoveAll(recency, {k})
  /\ UNCHANGED <<now, maxCacheSize, storeVars, engineVars>>

Cleanup ==
  /\ LET r == CM_cleanup(cm, now)
     IN /\ cm' = r.c
        /\ ret' = [NoRet EXCEPT !.op = "cleanup", !.removed = r.removed]
        /\ recency' = RemoveAll(recency, DOMAIN cm.cache \ DOMAIN r.c.cache)
  /\ UNCHANGED <<now, maxCacheSize, storeVars, engineVars>>

Clear ==
  /\ cm' = CM_clear(cm)
  /\ ret' = [NoRet EXCEPT !.op = "clear", !.sizeBefore = CM_size(cm)]
  /\ recency' = <<>>
  /\ UNCHANGED <<now, maxCacheSize, storeVars, engineVars>>

Tick ==
  /\ now < MaxNow
  /\ now' = now + 1
  /\ ret' = [NoRet EXCEPT !.op = "tick"]
  /\ UNCHANGED <<maxCacheSize, cm, recency, storeVars, engineVars>>

Next ==
  \/ \E k \in Keys, v \in Values, ttl \in TTLs : Set(k, v, ttl)
  \/ \E k \in Keys : Get(k)
  \/ \E k \in Keys : Has(k)
  \/ \E k \in Keys : Delete(k)
  \/ Cleanup
  \/ Clear
  \/ Tick

Spec == Init /\ [][Next]_vars

(***************************************************************************)
(* SpecTimer: the cache instance with its cleanup timer.  The constructor  *)
(* starts the timer and only destroy(), at process exit, stops it, so the  *)
(* callback fires again and again while the instance is in use.            *)
(***************************************************************************)
\* the setInterval callback of startCleanupTimer: cleanup()
TimerFires ==
  /\ \E r \in {CM_cleanup(cm, now)} :
        /\ cm' = r.c
        /\ ret' = [NoRet EXCEPT !.op = "timer", !.removed = r.removed]
        /\ recency' = RemoveAll(recency, DOMAIN cm.cache \ DOMAIN r.c.cache)
  /\ UNCHANGED <<now, maxCacheSize, storeVars, engineVars>>

NextTimer ==
  \/ \E k \in Keys, ttl \in TTLs : Set(k, "v1", ttl)
  \/ \E k \in Keys : Get(k)
  \/ \E k \in Keys : Has(k)
  \/ \E k \in Keys : Delete(k)
  \/ Clear
  \/ Tick
  \/ TimerFires

SpecTimer == Init /\ [][NextTimer]_vars /\ WF_vars(TimerFires)

(***************************************************************************)
(* SpecEvict: a cache instance configured with a maxCacheSize of which a   *)
(* tenth is more than one entry, filled to the limit or one short of it    *)
(***************************************************************************)
\* configured maxCacheSize values of the cache instance of SpecEvict
EvictSizes == {2, 19, 20}
\* the keys of the instance: "1", "2", ...
EvictKey(i) == ToString(i)
\* the keys offered to set and get
EvictKeys == {EvictKey(1), EvictKey(2), EvictKey(20), EvictKey(21)}

\* the cache after set(EvictKey(i), "v1") for the n keys, begun at the key
\* after EvictKey(first) and wrapping around
FilledCache(n, first) ==
  [cache |-> [k \in {EvictKey(i) : i \in 1..n} |->
                [data |-> "v1", timestamp |-> 0, expiresAt |-> 0]],
   accessOrder |-> [k \in {EvictKey(i) : i \in 1..n} |->
                      CHOOSE r \in 1..n :
                         k = EvictKey(((r - 1 + first) % n) + 1)],
   accessCounter |-> n]

InitEvict ==
  /\ now = 0
  /\ maxCacheSize \in EvictSizes
  /\ \E n \in {maxCacheSize - 1, maxCacheSize}, first \in {0, 1, 7} :
        /\ cm = FilledCache(n, first % n)
        /\ recency = sortedByAccess(cm.accessOrder, DOMAIN cm.accessOrder)
  /\ ret = NoRet
  /\ InitStoreVars
  /\ InitEngineVars

\* set(key, value, ttlMs), the calls counted
EvictSet(k, v, ttl) ==
  /\ calls < MaxEvictCalls
  /\ calls' = calls + 1
  /\ cm' = CM_set(cm, k, v, ttl, now, maxCacheSize)
  /\ ret' = [NoRet EXCEPT !.op = "set", !.key = k, !.data = v, !.ttl = ttl,
                          !.evicted = Evicted(cm, maxCacheSize),
                          !.sizeBefore = CM_size(cm), !.wasHeld = k \in DOMAIN cm.cache]
  /\ recency' = Append(RemoveAll(recency, Evicted(cm, maxCacheSize) \cup {k}), k)
  /\ UNCHANGED <<now, maxCacheSize, storeVars, projectCache, auxVars, ed, an, eret, hist>>

\* get(key), the calls counted
EvictGet(k) ==
  /\ calls < MaxEvictCalls
  /\ calls' = calls + 1
  /\ \E r \in {CM_get(cm, k, now)} :
        /\ cm' = r.c
        /\ ret' = [NoRet EXCEPT !.op = "get", !.key = k, !.hit = r.hit, !.data = r.data,
                                !.wasHeld = k \in DOMAIN cm.cache]
        /\ recency' = IF r.hit THEN Append(RemoveAll(recency, {k}), k)
                      ELSE RemoveAll(recency, {k})
  /\ UNCHANGED <<now, maxCacheSize, storeVars, projectCache, auxVars, ed, an, eret, hist>>

NextEvict ==
  \/ \E k \in EvictKeys, ttl \in TTLs : EvictSet(k, "v2", ttl)
  \/ \E k \in EvictKeys : EvictGet(k)

SpecEvict == InitEvict /\ [][NextEvict]_vars

(***************************************************************************)
(* SpecStore: the FileManager called directly                              *)
(***************************************************************************)
\* the calls made to the file store: every path with the default options
\* (the new file p/d/c.ts without backups, written empty), and the existing file /w/p/a.ts
\* with each option and each failing I/O call
TheFile == [abs |-> TRUE, segs |-> <<"w", "p", "a.ts">>]
NewFile == [abs |-> FALSE, segs |-> <<"p", "d", "c.ts">>]
BigFile == [abs |-> TRUE, segs |-> <<"w", "big.ts">>]
StorePaths ==
  {TheFile, NewFile,
   [abs |-> FALSE, segs |-> <<"..", "etc", "x">>],
   [abs |-> TRUE, segs |-> <<"w", "p", "d", "..", "a.ts">>],
   EmptyPath}
StoreWrites ==
  {[path |-> p, content |-> "c2", createBackup |-> TRUE, ensureDirectory |-> TRUE,
    fault |-> "none"] : p \in StorePaths \ {NewFile}}
  \cup {[path |-> TheFile, content |-> c, createBackup |-> FALSE, ensureDirectory |-> TRUE,
         fault |-> "none"] : c \in {"c2", "BIG"}}
  \cup {[path |-> TheFile, content |-> "c2", createBackup |-> TRUE, ensureDirectory |-> TRUE,
         fault |-> f] : f \in {"backup", "write"}}
  \cup {[path |-> NewFile, content |-> "", createBackup |-> FALSE, ensureDirectory |-> e,
         fault |-> f] : e \in BOOLEAN, f \in {"none", "mkdir"}}
StoreDeletes ==
  {[path |-> p, createBackup |-> TRUE, fault |-> "none"] : p \in StorePaths \ {NewFile}}
  \cup {[path |-> NewFile, createBackup |-> FALSE, fault |-> "none"]}
  \cup {[path |-> TheFile, createBackup |-> b, fault |-> f] :
          b \in BOOLEAN, f \in {"none", "backup", "unlink"}}
StoreReads ==
  {[path |-> p, useCache |-> TRUE, fault |-> "none"] : p \in StorePaths}
  \cup {[path |-> TheFile, useCache |-> u, fault |-> f] :
          u \in BOOLEAN, f \in {"none", "stat", "read"}}
  \cup {[path |-> BigFile, useCache |-> TRUE, fault |-> f] : f \in {"none", "read"}}
StoreMaxSizes == {1000}

InitStore ==
  /\ now = 0
  /\ maxCacheSize \in StoreMaxSizes
  /\ InitCacheVars
  /\ InitStoreVars
  /\ InitEngineVars

\* the record of the last successful mutations once op has answered err
Mutated(p, op, content, err) ==
  IF err # "" THEN sret.last
  ELSE LET k == resolve(validatePath(p).path).segs
       IN [x \in DOMAIN sret.last \cup {k} |->
             IF x = k THEN [op |-> op, content |-> content] ELSE sret.last[x]]

WriteFile(p, content, createBackup, ensureDirectory, fault) ==
  /\ fileCache.accessCounter < MaxStoreCounter
  /\ \E r \in {FM_writeFile(fs, fileCache, p, content, createBackup, ensureDirectory,
                             now, fault, maxCacheSize)} :
        /\ fs' = r.fs
        /\ fileCache' = r.fc
        /\ sret' = [NoSRet EXCEPT !.op = "write", !.path = p, !.err = r.err,
                                  !.content = content, !.createBackup = createBackup,
                                  !.fault = fault,
                                  !.last = Mutated(p, "write", content, r.err)]
  /\ UNCHANGED <<now, maxCacheSize, cacheVars, engineVars>>

DeleteFile(p, createBackup, fault) ==
  /\ \E r \in {FM_deleteFile(fs, fileCache, p, createBackup, now, fault)} :
        /\ fs' = r.fs
        /\ fileCache' = r.fc
        /\ sret' = [NoSRet EXCEPT !.op = "delete", !.path = p, !.err = r.err,
                                  !.fault = fault,
                                  !.last = Mutated(p, "delete", Undefined, r.err)]
  /\ UNCHANGED <<now, maxCacheSize, cacheVars, engineVars>>

ReadFile(p, useCache, fault) ==
  /\ fileCache.accessCounter < MaxStoreCounter
  /\ \E r \in {FM_readFile(fs, fileCache, p, useCache, now, fault, maxCacheSize)} :
        /\ fileCache' = r.fc
        /\ sret' = [NoSRet EXCEPT !.op = "read", !.path = p, !.err = r.err,
                                  !.content = r.content, !.useCache = useCache,
                                  !.fault = fault, !.last = sret.last]
  /\ UNCHANGED <<now, maxCacheSize, cacheVars, engineVars, fs>>

\* FileManager.clearCache()
ClearCache ==
  /\ fileCache' = CM_clear(fileCache)
  /\ sret' = [NoSRet EXCEPT !.op = "clearCache", !.last = sret.last]
  /\ UNCHANGED <<now, maxCacheSize, cacheVars, engineVars, fs>>

StoreTick ==
  /\ now < MaxStoreNow
  /\ now' = now + 1
  /\ sret' = [NoSRet EXCEPT !.op = "tick", !.last = sret.last]
  /\ UNCHANGED <<maxCacheSize, cacheVars, engineVars, fs, fileCache>>

NextStore ==
  \/ \E w \in StoreWrites :
        WriteFile(w.path, w.content, w.createBackup, w.ensureDirectory, w.fault)
  \/ \E d \in StoreDeletes : DeleteFile(d.path, d.createBackup, d.fault)
  \/ \E r \in StoreReads : ReadFile(r.path, r.useCache, r.fault)
  \/ ClearCache
  \/ StoreTick

SpecStore == InitStore /\ [][NextStore]_vars

(***************************************************************************)
(* ContextEngine.editMultipleFiles (context-engine.ts, held in             *)
(* src/unnamed/part_001)                                                   *)
(*                                                                         *)
(* A change is [filePath, action, content, backup]; content is Undefined   *)
(* when omitted, backup is the value after the schema default (true).      *)
(* The call in flight is ed = [pc, root, changes, i, results, applied,     *)
(* faults]: i is the index of the change the loop is at, results the       *)
(* EditResults pushed so far.  Kept for the properties only: applied[j]    *)
(* records whether the disk showed change j right after its turn,          *)
(* faults[j] the I/O call that failed while change j was applied.          *)
(* One change is applied per step: the awaits inside writeFile and         *)
(* deleteFile are taken together.                                          *)
(***************************************************************************)
\* z.array(FileChangeSchema).min(1).max(50)
SchemaMaxChanges == 50

FileChangeSchema(c) ==
  /\ FilePathSchema(c.filePath)
  /\ c.action \in {"create", "update", "delete"}

EditMultipleFilesSchema(root, changes) ==
  /\ ProjectPathSchema(root)
  /\ Len(changes) >= 1
  /\ Len(changes) <= SchemaMaxChanges
  /\ \A i \in 1..Len(changes) : FileChangeSchema(changes[i])

\* validateProjectBoundaries(filePath, projectRoot)
FM_validateProjectBoundaries(filePath, projectRoot) ==
  isPathWithinDirectory(resolve(filePath), resolve(projectRoot))

\* path.resolve(projectPath), the key of the project cache
ProjectKey(root) == resolve(root).segs

\* change.content || ''
ContentOf(c) == IF c.content = Undefined THEN "" ELSE c.content

\* the body of the loop for one change: [fs, fc, err]
ApplyChange(disk, fc, root, c, t, fault, maxSize) ==
  LET fullPath == resolve2(root, c.filePath)
  IN IF ~FM_validateProjectBoundaries(fullPath, root)
     THEN [fs |-> disk, fc |-> fc, err |-> "PROCESSING_ERROR"]
     ELSE CASE c.action = "create" ->
                 FM_writeFile(disk, fc, fullPath, ContentOf(c), c.backup, TRUE, t, fault, maxSize)
            [] c.action = "update" ->
                 FM_writeFile(disk, fc, fullPath, ContentOf(c), c.backup, FALSE, t, fault, maxSize)
            [] c.action = "delete" ->
                 FM_deleteFile(disk, fc, fullPath, c.backup, t, fault)
            [] OTHER -> [fs |-> disk, fc |-> fc, err |-> "PROCESSING_ERROR"]

\* the EditResult pushed for a change
EditResultOf(c, err) ==
  [file |-> c.filePath,
   status |-> IF err # "" THEN "error"
              ELSE CASE c.action = "create" -> "created"
                     [] c.action = "update" -> "updated"
                     [] OTHER -> "deleted"]

\* the disk shows the change
Reflects(disk, root, c) ==
  LET full == resolve2(root, c.filePath).segs
  IN IF c.action = "delete" THEN full \notin DOMAIN disk.files
     ELSE full \in DOMAIN disk.files /\ disk.files[full].content = ContentOf(c)

\* the try/catch around one change: the result is pushed, the loop goes on
EditAdvance_AbortOnError(e, c, err, shown) ==
  IF err # "" THEN [e EXCEPT !.i = Len(e.changes) + 1]
  ELSE [e EXCEPT !.i = e.i + 1,
                 !.results = Append(e.results, EditResultOf(c, err)),
                 !.applied = Append(e.applied, shown)]

EditAdvance_SkipAfterError(e, c, err, shown) ==
  [e EXCEPT !.i = IF err # "" THEN e.i + 2 ELSE e.i + 1,
            !.results = Append(e.results, EditResultOf(c, err)),
            !.applied = Append(e.applied, shown)]

EditAdvance(e, c, err, shown) ==
  [e EXCEPT !.i = e.i + 1,
            !.results = Append(e.results, EditResultOf(c, err)),
            !.applied = Append(e.applied, shown)]

\* the I/O call that can fail while a change is applied
FaultsOf(c) ==
  (IF c.action = "delete" THEN {"none", "unlink"} ELSE {"none", "write"})
    \cup (IF c.backup THEN {"backup"} ELSE {})

\* editMultipleFiles(projectPath, changes) is called: validateInput throws for
\* the whole call or the loop is entered
EditCall(root, changes) ==
  /\ ed.pc = "idle"
  /\ calls' = calls + 1
  /\ IF EditMultipleFilesSchema(root, changes)
     THEN /\ ed' = [NoEdit EXCEPT !.pc = "loop", !.root = root, !.changes = changes, !.i = 1]
          /\ eret' = NoERet
     ELSE /\ ed' = ed
          /\ eret' = [op |-> "edit", root |-> root, changes |-> changes, raised |-> TRUE,
                      results |-> <<>>, applied |-> <<>>, faults |-> <<>>,
                      invalidated |-> FALSE]
  /\ an' = IF an.pc = "idle" THEN an ELSE [an EXCEPT !.overlap = TRUE]
  /\ UNCHANGED <<now, maxCacheSize, cacheVars, storeVars, projectCache, auxVars, hist>>

\* the loop applies the change it is at; after the last one the project
\* cache entry is deleted and the results are returned
EditStep(fault) ==
  /\ ed.pc = "loop"
  /\ \E c \in {ed.changes[ed.i]} :
     \E r \in {ApplyChange(fs, fileCache, ed.root, c, now, fault, maxCacheSize)} :
     \E e \in {EditAdvance(ed, c, r.err, Reflects(r.fs, ed.root, c))} :
        /\ fault \in FaultsOf(c)
        /\ fs' = r.fs
        /\ fileCache' = r.fc
        /\ hist' = IF r.err = "" /\ c.action = "update"
                       /\ resolve2(ed.root, c.filePath).segs \in hist.analysed
                    THEN [hist EXCEPT !.updated = @ \cup {resolve2(ed.root, c.filePath).segs}]
                    ELSE hist
        /\ IF e.i > Len(ed.changes)
           THEN /\ projectCache' = CM_delete(projectCache, ProjectKey(ed.root)).c
                /\ ed' = NoEdit
                /\ eret' = [op |-> "edit", root |-> ed.root, changes |-> ed.changes,
                            raised |-> FALSE, results |-> e.results, applied |-> e.applied,
                            faults |-> Append(ed.faults, fault),
                            invalidated |->
                              CM_delete(projectCache, ProjectKey(ed.root)).deleted]
           ELSE /\ ed' = [e EXCEPT !.faults = Append(ed.faults, fault)]
                /\ UNCHANGED <<projectCache, eret>>
  /\ an' = IF an.pc = "idle" THEN an ELSE [an EXCEPT !.overlap = TRUE]
  /\ UNCHANGED <<now, maxCacheSize, cacheVars, sret, auxVars, calls>>

\* Date.now() advances
EditTick ==
  /\ now < MaxEditNow
  /\ now' = now + 1
  /\ UNCHANGED <<maxCacheSize, cacheVars, storeVars, engineVars>>

(***************************************************************************)
(* SpecEdit: editMultipleFiles calls on the project p (/w/p)               *)
(***************************************************************************)
Rel(segs) == [abs |-> FALSE, segs |-> segs]
Chg(segs, action, content, backup) ==
  [filePath |-> Rel(segs), action |-> action, content |-> content, backup |-> backup]

\* changes that pass the schema: a nested create, an update whose directory
\* is missing, the delete of the file the project holds
CoreChanges ==
  {Chg(<<"d", "c.ts">>, "create", "c2", TRUE),
   Chg(<<"n", "b.ts">>, "update", "c2", TRUE),
   Chg(<<"a.ts">>, "delete", Undefined, TRUE)}

RECURSIVE ListsOver(_, _)
ListsOver(S, n) ==
  IF n = 0 THEN {<<>>}
  ELSE LET shorter == ListsOver(S, n - 1)
       IN shorter \cup {Append(l, c) : l \in {x \in shorter : Len(x) = n - 1}, c \in S}

\* the change lists offered: every list of up to MaxChanges core changes (the
\* empty list among them), and lists with a path or an action of each other
\* shape
EditLists ==
  ListsOver(CoreChanges, MaxChanges)
  \cup {<<Chg(<<"b.ts">>, "create", "c2", TRUE), Chg(<<"n", "b.ts">>, "update", "c2", TRUE),
          Chg(<<"c.ts">>, "create", Undefined, FALSE)>>,
        <<Chg(<<"a.ts">>, "update", "c2", TRUE), Chg(<<"..", "x.ts">>, "update", "c2", TRUE)>>,
        <<Chg(<<"a.ts">>, "delete", Undefined, TRUE),
          [filePath |-> [abs |-> TRUE, segs |-> <<"w", "x.ts">>], action |-> "delete",
           content |-> Undefined, backup |-> TRUE]>>,
        <<Chg(<<"d", "..", "a.ts">>, "update", "c2", FALSE)>>,
        <<Chg(<<"a.ts">>, "update", "c2", TRUE), Chg(<<"a.ts">>, "update", "c1", TRUE)>>,
        <<Chg(<<".">>, "delete", Undefined, TRUE)>>,
        <<Chg(<<"a.ts">>, "create", "BIG", TRUE)>>,
        <<Chg(<<"a.ts">>, "rename", "c2", TRUE)>>,
        <<Chg(<<>>, "create", "c2", TRUE)>>,
        [i \in 1..(SchemaMaxChanges + 1) |-> Chg(<<"a.ts">>, "update", "c2", FALSE)]}

EditRoots == {Rel(<<"p">>), EmptyPath}

NextEdit ==
  \/ \E root \in EditRoots, changes \in EditLists :
        calls < MaxEditCalls /\ EditCall(root, changes)
  \/ \E fault \in {"none", "write", "unlink", "backup"} : EditStep(fault)
  \/ EditTick

SpecEdit == InitStore /\ [][NextEdit]_vars

(***************************************************************************)
(* SpecBoundary: validateProjectBoundaries as a function of its arguments  *)
(***************************************************************************)
BoundarySegs == {"p", "p-x", "a.ts", ".."}

\* the candidate paths: absolute and relative, up to MaxBoundarySegs segments
BoundaryCandidates ==
  {[abs |-> a, segs |-> l] : a \in BOOLEAN, l \in ListsOver(BoundarySegs, MaxBoundarySegs)}

\* the project roots: /, the working directory, and the paths of one segment
BoundaryRoots == {[abs |-> a, segs |-> l] : a \in BOOLEAN, l \in ListsOver(BoundarySegs, 1)}

ValidateProjectBoundaries(filePath, projectRoot) ==
  /\ eret' = [op |-> "validateProjectBoundaries", filePath |-> filePath,
              projectRoot |-> projectRoot,
              result |-> FM_validateProjectBoundaries(filePath, projectRoot)]
  /\ UNCHANGED <<now, maxCacheSize, cacheVars, storeVars, projectCache, auxVars, ed, an,
                 calls, hist>>

NextBoundary ==
  \E filePath \in BoundaryCandidates, projectRoot \in BoundaryRoots :
     ValidateProjectBoundaries(filePath, projectRoot)

SpecBoundary == InitStore /\ [][NextBoundary]_vars

(***************************************************************************)
(* ContextEngine.analyzeProject (context-engine.ts, held in                *)
(* src/unnamed/part_001)                                                   *)
(*                                                                         *)
(* The call in flight is an = [pc, root, force, files, i, pending,         *)
(* fileInfoMap, ...]: files is the list findFiles returned, i the index of *)
(* the first file of the next batch, pending the files of the current      *)
(* batch whose getFileInfo awaits the disk, order the keys of fileInfoMap   *)
(* in the order of their insertion.  pc is "find" while findFiles          *)
(* is awaited, "meta" while extractProjectMetadata is, "batch" while       *)
(* Promise.all of a batch is.  Kept for the properties only: started and   *)
(* resolved (the file tasks begun and settled), failed (the tasks that     *)
(* yielded no FileInfo), overlap (an edit ran during the call), updated    *)
(* (hist.updated when the call was made), cleared (where the call stood    *)
(* when clearAllCaches ran) and dropped (the cache lookup of the call      *)
(* removed an expired context).                                            *)
(* A file task is two steps: the synchronous fileCache.get when its batch  *)
(* is mapped, and, on a miss, stat + read + fileCache.set + analyzer when  *)
(* the disk answers; a hit settles before any disk answer.                 *)
(***************************************************************************)
\* const batchSize = 10
BatchSize == 10

AbsOf(segs) == [abs |-> TRUE, segs |-> segs]

\* the order in which glob lists the files of the model
GlobOrder ==
  <<<<"w", "p", "a.ts">>, <<"w", "p", "b.ts">>, <<"w", "p", "c.ts">>,
    <<"w", "p", "d", "c.ts">>, <<"w", "p", "n", "b.ts">>>>
  \o [k \in 1..MaxBatchFiles |-> <<"w", "q", IF k = 1 THEN "a.ts" ELSE ToString(k)>>]

\* findFiles(searchPath): the files under the directory that are not too
\* large and have a supported or no extension
FM_findFiles(disk, dir) ==
  SelectSeq(GlobOrder,
            LAMBDA f : /\ f \in DOMAIN disk.files
                       /\ Len(f) > Len(dir.segs)
                       /\ SubSeq(f, 1, Len(dir.segs)) = dir.segs
                       /\ SizeOf(disk.files[f].content) <= maxFileSize
                       /\ extname(f[Len(f)]) \in supportedExtensions \cup {""})

\* the FileInfo getFileInfo builds and caches (structure still empty)
FileInfoOf(abs, content) ==
  [path |-> relative(Cwd, abs), absolutePath |-> abs.segs,
   language |-> detectLanguage(basename(abs)), size |-> SizeOf(content),
   lines |-> LinesOf(content), hash |-> generateFileHash(content), content |-> content,
   functions |-> {}, dependencies |-> {}]

\* getFileInfo after the cache miss: [fc, ok, info]
FM_getFileInfoRead(disk, fc, abs, t, fault, maxSize) ==
  LET \* the FileInfo is built and cached
      cache(info) ==
        [fc |-> CM_set(fc, FileInfoKey(abs), info, CacheTTL, t, maxSize),
         ok |-> TRUE, info |-> info]
      \* after readFile(absolutePath, false) answered r
      build(r) ==
        IF /\ fault # "stat"
           /\ abs.segs \in DOMAIN disk.files
           /\ SizeOf(disk.files[abs.segs].content) <= maxFileSize
           /\ extname(basename(abs)) \in supportedExtensions
           /\ r.err = ""
        THEN cache(FileInfoOf(abs, r.content))
        ELSE [fc |-> fc, ok |-> FALSE, info |-> FileInfoOf(abs, "")]
  IN build(FM_readFile(disk, fc, abs, FALSE, t, "none", maxSize))

\* the function names extractCodeStructure finds in a content
FunctionsOf(content) ==
  CASE content = "c1" -> {"f"}
    [] content = "c2" -> {"f", "g"}
    [] content = "cT" -> {"toString"}
    [] content = "cM" -> {"f"}
    [] OTHER -> {}

\* the imports extractDependencies finds in a content, as the path segments
\* of a relative import ('./a' is <<".", "a">>)
DependenciesOf(content) ==
  CASE content = "c2" -> {<<".", "a">>}
    [] OTHER -> {}

\* analyzeFile after getFileInfo: the FileInfo with its dependencies and
\* structure
Analyzed(info) ==
  [info EXCEPT !.functions = FunctionsOf(info.content),
               !.dependencies = DependenciesOf(info.content)]

\* the names every plain object inherits from Object.prototype
ObjectPrototypeMembers ==
  {"constructor", "toString", "toLocaleString", "valueOf", "hasOwnProperty",
   "isPrototypeOf", "propertyIsEnumerable"}

\* buildProjectStructure(files): functions[func] of an inherited name is
\* not an array and push throws
buildProjectStructure(files) ==
  LET names == UNION {files[r].functions : r \in DOMAIN files}
  IN [err |-> names \cap ObjectPrototypeMembers # {},
      totalFiles |-> Cardinality(DOMAIN files),
      languages |-> {files[r].language : r \in DOMAIN files},
      functions |-> [n \in names |-> {r \in DOMAIN files : n \in files[r].functions}]]

\* fileInfoMap.set(relativePath, fileInfo)
PutInfo(a, f, info) ==
  LET put(rel) ==
        [x \in DOMAIN a.fileInfoMap \cup {rel} |-> IF x = rel THEN info ELSE a.fileInfoMap[x]]
  IN put(relative(a.root, AbsOf(f)).segs)

\* the task of file f is begun: fileCache.get, a hit settling the task
DispatchOne(a, fc, f, t) ==
  LET task(g) ==
        IF g.hit
        THEN [an |-> [a EXCEPT !.started = @ \cup {f}, !.resolved = @ \cup {f},
                               !.fileInfoMap = PutInfo(a, f, Analyzed(g.data)),
                               !.order = Append(@, relative(a.root, AbsOf(f)).segs)],
              fc |-> g.c]
        ELSE [an |-> [a EXCEPT !.started = @ \cup {f}, !.pending = @ \cup {f}], fc |-> g.c]
  IN task(CM_get(fc, FileInfoKey(AbsOf(f)), t))

RECURSIVE DispatchFrom(_, _, _, _, _)
DispatchFrom(a, fc, k, last, t) ==
  IF k > last THEN [an |-> a, fc |-> fc]
  ELSE LET next(d) == DispatchFrom(d.an, d.fc, k + 1, last, t)
       IN next(DispatchOne(a, fc, a.files[k], t))

\* files.slice(i, i + batchSize): the index of the last file of the batch
BatchEnd_All(n, i) == n

\* a slice that is one file wider
BatchEnd_Wide(n, i) == Min(i + BatchSize, n)

BatchEnd(n, i) == Min(i + BatchSize - 1, n)

\* the loop from the batch at a.i on, up to a batch that has to wait for the
\* disk ("batch") or to the end of the list ("build")
RECURSIVE RunBatches(_, _, _)
RunBatches(a, fc, t) ==
  IF a.i > Len(a.files) THEN [an |-> [a EXCEPT !.pc = "build"], fc |-> fc]
  ELSE LET last == BatchEnd(Len(a.files), a.i)
           \* await Promise.all(batch), the tasks dispatched (d)
           await(d) ==
             IF d.an.pending = {} THEN RunBatches([d.an EXCEPT !.i = last + 1], d.fc, t)
             ELSE [an |-> [d.an EXCEPT !.i = last + 1], fc |-> d.fc]
       IN await(DispatchFrom([a EXCEPT !.pc = "batch"], fc, a.i, last, t))

\* if (!forceRefresh) { cached = projectCache.get(key); if (cached) return }
ServesFromCache_Never(force, g) == FALSE

ServesFromCache(force, g) == ~force /\ g.hit

\* what an analyzeProject call returns or throws
AnalyzeRaised(a, err) ==
  [op |-> "analyze", root |-> a.root, force |-> a.force, raised |-> TRUE, err |-> err,
   cached |-> FALSE, enumerated |-> a.files # <<>>, files |-> a.files, failed |-> a.failed,
   overlap |-> a.overlap, updated |-> a.updated, cleared |-> a.cleared,
   dropped |-> a.dropped, context |-> <<>>]

AnalyzeReturned(a, cached, context) ==
  [op |-> "analyze", root |-> a.root, force |-> a.force, raised |-> FALSE, err |-> "",
   cached |-> cached, enumerated |-> ~cached, files |-> a.files, failed |-> a.failed,
   overlap |-> a.overlap, updated |-> a.updated, cleared |-> a.cleared,
   dropped |-> a.dropped, context |-> context]

\* the loop goes on from r = [an, fc]; at the end of the list the context is
\* built, cached for an hour and returned, or building it throws
Proceed(r) ==
  LET a == r.an
      structure == buildProjectStructure(a.fileInfoMap)
      context == [projectPath |-> ProjectKey(a.root), timestamp |-> now,
                  files |-> a.fileInfoMap, order |-> a.order, structure |-> structure,
                  metadata |-> [name |-> basename(a.root)]]
  IN /\ fileCache' = r.fc
     /\ analysisCache' = analysisCache
     /\ IF a.pc # "build"
        THEN an' = a /\ UNCHANGED <<projectCache, watchedProjects, eret, hist>>
        ELSE /\ an' = NoAnalysis
             /\ IF structure.err
                THEN /\ eret' = AnalyzeRaised(a, "PROCESSING_ERROR")
                     /\ UNCHANGED <<projectCache, watchedProjects, hist>>
                ELSE /\ projectCache' = CM_set(projectCache, ProjectKey(a.root), context,
                                               CacheTTL, now, maxCacheSize)
                     /\ watchedProjects' = watchedProjects \cup {ProjectKey(a.root)}
                     /\ eret' = AnalyzeReturned(a, FALSE, context)
                     /\ hist' = [hist EXCEPT !.analysed =
                                   @ \cup {x \in DOMAIN fs.files :
                                             relative(a.root, AbsOf(x)).segs
                                               \in DOMAIN a.fileInfoMap}]

\* analyzeProject(projectPath, forceRefresh) is called: validateInput throws,
\* the cached context is returned, or findFiles is awaited
AnalyzeCall(root, force) ==
  /\ an.pc = "idle"
  /\ calls' = calls + 1
  /\ LET g == CM_get(projectCache, ProjectKey(root), now)
         a == [NoAnalysis EXCEPT !.root = root, !.force = force, !.overlap = ed.pc # "idle",
                                 !.updated = hist.updated]
     IN IF ~ProjectPathSchema(root)
        THEN /\ eret' = AnalyzeRaised(a, "VALIDATION_ERROR")
             /\ UNCHANGED <<projectCache, an>>
        ELSE IF ServesFromCache(force, g)
        THEN /\ projectCache' = g.c
             /\ eret' = AnalyzeReturned(a, TRUE, g.data)
             /\ an' = an
        ELSE /\ projectCache' = IF force THEN projectCache ELSE g.c
             /\ an' = [a EXCEPT !.pc = "find", !.dropped = ~force /\ g.c # projectCache]
             /\ eret' = NoERet
  /\ UNCHANGED <<now, maxCacheSize, cacheVars, storeVars, auxVars, ed, hist>>

\* a findFiles whose failure takes the context of the root out of the cache
AnalyzeFind_Invalidate(fault) ==
  /\ an.pc = "find"
  /\ IF fault = "glob" \/ validatePath(an.root).err # ""
     THEN /\ an' = NoAnalysis
          /\ eret' = AnalyzeRaised(an, "PROCESSING_ERROR")
          /\ projectCache' = CM_delete(projectCache, ProjectKey(an.root)).c
     ELSE /\ an' = [an EXCEPT !.pc = "meta",
                              !.files = FM_findFiles(fs, resolve(validatePath(an.root).path))]
          /\ UNCHANGED <<eret, projectCache>>
  /\ UNCHANGED <<now, maxCacheSize, cacheVars, storeVars, auxVars, ed, calls, hist>>

\* findFiles resolves with the list of files, or rejects
AnalyzeFind(fault) ==
  /\ an.pc = "find"
  /\ IF fault = "glob" \/ validatePath(an.root).err # ""
     THEN /\ an' = NoAnalysis
          /\ eret' = AnalyzeRaised(an, "PROCESSING_ERROR")
     ELSE /\ an' = [an EXCEPT !.pc = "meta",
                              !.files = FM_findFiles(fs, resolve(validatePath(an.root).path))]
          /\ UNCHANGED eret
  /\ UNCHANGED <<now, maxCacheSize, cacheVars, storeVars, projectCache, auxVars, ed, calls,
               hist>>

\* extractProjectMetadata resolves and the batch loop is entered
AnalyzeMeta ==
  /\ an.pc = "meta"
  /\ Proceed(RunBatches([an EXCEPT !.i = 1], fileCache, now))
  /\ UNCHANGED <<now, maxCacheSize, cacheVars, fs, sret, ed, calls>>

\* the disk answers the task of file f; the last answer of a batch lets the
\* loop go on
TaskResolve(f, fault) ==
  /\ an.pc = "batch"
  /\ f \in an.pending
  /\ \E r \in {FM_getFileInfoRead(fs, fileCache, AbsOf(f), now, fault, maxCacheSize)} :
     \E ok \in {r.ok /\ fault # "analyzer"} :
     \E a \in {[an EXCEPT !.pending = @ \ {f}, !.resolved = @ \cup {f},
                          !.failed = IF ok THEN @ ELSE @ \cup {f},
                          !.fileInfoMap = IF ok THEN PutInfo(an, f, Analyzed(r.info))
                                          ELSE @,
                          !.order = IF ok THEN Append(@, relative(an.root, AbsOf(f)).segs)
                                    ELSE @]} :
        IF a.pending = {} THEN Proceed(RunBatches(a, r.fc, now))
        ELSE /\ an' = a
             /\ fileCache' = r.fc
             /\ UNCHANGED <<projectCache, auxVars, eret, hist>>
  /\ UNCHANGED <<now, maxCacheSize, cacheVars, fs, sret, ed, calls>>

\* clearAllCaches() that also drops the analysis in flight
ClearAllCaches_Cancel ==
  /\ calls' = calls + 1
  /\ projectCache' = CM_clear(projectCache)
  /\ analysisCache' = CM_clear(analysisCache)
  /\ fileCache' = CM_clear(fileCache)
  /\ watchedProjects' = {}
  /\ an' = NoAnalysis
  /\ eret' = [op |-> "clearAllCaches", raised |-> FALSE,
              cleared |-> [project |-> CM_size(projectCache), file |-> CM_size(fileCache)]]
  /\ UNCHANGED <<now, maxCacheSize, cacheVars, fs, sret, ed, hist>>

\* clearAllCaches(); an.cleared notes where an analysis in flight stood
ClearAllCaches ==
  /\ calls' = calls + 1
  /\ projectCache' = CM_clear(projectCache)
  /\ analysisCache' = CM_clear(analysisCache)
  /\ fileCache' = CM_clear(fileCache)
  /\ watchedProjects' = {}
  /\ an' = [an EXCEPT !.cleared = IF an.pc = "idle" THEN @ ELSE an.pc]
  /\ eret' = [op |-> "clearAllCaches", raised |-> FALSE,
              cleared |-> [project |-> CM_size(projectCache), file |-> CM_size(fileCache)]]
  /\ UNCHANGED <<now, maxCacheSize, cacheVars, fs, sret, ed, hist>>

(***************************************************************************)
(* The lookups of ContextEngine: getProjectContext, searchInProject,       *)
(* getFileRelationships, getProjectStats.  None of them awaits anything    *)
(* but getProjectContext, which reads the project cache, so each is one    *)
(* step.  A query is a string known by its length and by the texts it      *)
(* matches; the lines of a content are the texts ContentLines gives.       *)
(***************************************************************************)
Null == "null"

getProjectContext_Populate(pc, root, t) ==
  [c |-> CM_set(pc, ProjectKey(root), <<>>, CacheTTL, t, 1000), hit |-> FALSE,
   data |-> Undefined]

\* getProjectContext(projectPath): [c, hit, data]
getProjectContext(pc, root, t) == CM_get(pc, ProjectKey(root), t)

\* query.length
QueryLen(q) ==
  CASE q = ""     -> 0
    [] q = "LONG" -> 1001
    [] OTHER      -> 1

\* SearchQuerySchema: z.string().min(1).max(1000)
SearchQuerySchema(q) == QueryLen(q) >= 1 /\ QueryLen(q) <= 1000

\* SearchProjectSchema
SearchProjectSchema(root, q) == ProjectPathSchema(root) /\ SearchQuerySchema(q)

\* GetFileRelationshipsSchema: filePath is optional (target is <<>> when it
\* is omitted, <<path>> when it is given)
GetFileRelationshipsSchema(root, target) ==
  ProjectPathSchema(root) /\ (target = <<>> \/ FilePathSchema(target[1]))

\* new RegExp(query, flags) throws a SyntaxError
BadRegExp(q) == q = "("

\* content.split('\n')
ContentLines(content) ==
  CASE content = "c1" -> <<"f">>
    [] content = "c2" -> <<"f", "g">>
    [] content = "cT" -> <<"toString">>
    [] content = "cM" -> [k \in 1..LongFileLines |-> "f"]
    [] OTHER          -> <<"">>

LowerCase(x) == IF x = "G" THEN "g" ELSE x

\* searchRegex.test(text) with the flags 'g' or 'gi'
RegExpTest(q, caseSensitive, text) ==
  IF caseSensitive THEN q = text ELSE LowerCase(q) = LowerCase(text)

\* matches.slice(0, 20)
MatchLimit == 20

\* the matches of one file: the lines of its content and, if asked for, the
\* names of its structure that the query matches
MatchesOf(info, q, caseSensitive, includeStructure) ==
  [lines |-> IF info.content = "" THEN {}
             ELSE {n \in 1..Len(ContentLines(info.content)) :
                     RegExpTest(q, caseSensitive, ContentLines(info.content)[n])},
   names |-> IF includeStructure
             THEN {f \in info.functions : RegExpTest(q, caseSensitive, f)}
             ELSE {}]

\* matches.slice(0, 20): the line matches come first; which names follow
\* them when the limit cuts the names is the order of the structure arrays,
\* which the model does not keep
Sliced(m) ==
  IF Cardinality(m.lines) >= MatchLimit
  THEN [lines |-> {n \in m.lines : Cardinality({x \in m.lines : x <= n}) <= MatchLimit},
        names |-> {}]
  ELSE [lines |-> m.lines,
        names |-> IF Cardinality(m.lines) + Cardinality(m.names) <= MatchLimit THEN m.names
                  ELSE CHOOSE S \in SUBSET m.names :
                         Cardinality(S) = MatchLimit - Cardinality(m.lines)]

\* maxResults = 100 when the option is omitted
DefaultMaxResults == 100

\* maxResults is any number (z.number()): the model keeps a number as the
\* count of its halves, so that 1.5 is 3
Halves(n) == 2 * n

\* the loop over the files of the context from the k-th on, in the order
\* of the Map: [results, scanned], scanned the files whose content and
\* structure were searched
RECURSIVE SearchScan(_, _, _, _, _, _, _)
SearchScan(context, q, caseSensitive, includeStructure, maxResults, k, acc) ==
  IF k > Len(context.order) \/ Halves(Cardinality(acc.results)) >= maxResults THEN acc
  ELSE LET r == context.order[k]
           next(m) ==
             SearchScan(context, q, caseSensitive, includeStructure, maxResults, k + 1,
                        [results |-> IF m.lines # {} \/ m.names # {}
                                     THEN acc.results \cup
                                            {[file |-> r, language |-> context.files[r].language,
                                              matches |-> Sliced(m)]}
                                     ELSE acc.results,
                         scanned |-> Append(acc.scanned, r)])
       IN next(MatchesOf(context.files[r], q, caseSensitive, includeStructure))

\* the SearchResults of a context: the files with a match, up to maxResults
SearchResultsOf(context, q, caseSensitive, includeStructure, maxResults) ==
  SearchScan(context, q, caseSensitive, includeStructure, maxResults, 1,
             [results |-> {}, scanned |-> <<>>])

\* the file name without its extension
StemOf(name) == IF extname(name) = "" THEN name ELSE Chars(name)[1]

\* findDependents(targetFile, context): the files with a relative import
\* that resolves to the target or to the target without its extension
findDependents(target, context) ==
  {r \in DOMAIN context.files \ {target} :
     \E dep \in context.files[r].dependencies :
        LET resolvedDep == resolve([abs |-> FALSE, segs |-> SubSeq(r, 1, Len(r) - 1) \o dep])
            resolvedTarget == resolve([abs |-> FALSE, segs |-> target])
        IN \/ resolvedDep = resolvedTarget
           \/ /\ target # <<>>
              /\ resolvedDep.segs = SubSeq(resolvedTarget.segs, 1, Len(resolvedTarget.segs) - 1)
                                      \o <<StemOf(target[Len(target)])>>}

\* the relationships of the target file, or of every file
RelationshipsOf(context, target) ==
  LET keys == IF target = <<>> \/ target = <<EmptyPath>> THEN DOMAIN context.files
              ELSE {target[1].segs} \cap DOMAIN context.files
  IN [r \in keys |-> [dependencies |-> context.files[r].dependencies,
                      dependents |-> findDependents(r, context)]]

\* the 'Project not analyzed' ProcessingError of a lookup
NotAnalyzed(op, root, args) ==
  [op |-> op, root |-> root, args |-> args, raised |-> TRUE, err |-> "PROCESSING_ERROR",
   message |-> "Project not analyzed", value |-> Null]

\* the lookup op(root, args) raised another error
QueryRaised(op, root, args, err) ==
  [op |-> op, root |-> root, args |-> args, raised |-> TRUE, err |-> err,
   message |-> "", value |-> Null]

\* the lookup op(root, args) returned a value
QueryReturned(op, root, args, value) ==
  [op |-> op, root |-> root, args |-> args, raised |-> FALSE, err |-> "",
   message |-> "", value |-> value]

\* searchInProject(root, args, {maxResults}) returned the results of a scan
SearchReturned(root, args, maxResults, scan) ==
  [op |-> "searchInProject", root |-> root, args |-> args, raised |-> FALSE, err |-> "",
   message |-> "", value |-> scan.results, maxResults |-> maxResults,
   scanned |-> scan.scanned]

\* getProjectContext(projectPath)
GetProjectContext(root) ==
  /\ calls' = calls + 1
  /\ \E g \in {getProjectContext(projectCache, root, now)} :
        /\ projectCache' = g.c
        /\ eret' = QueryReturned("getProjectContext", root, <<>>, IF g.hit THEN g.data ELSE Null)
  /\ UNCHANGED <<now, maxCacheSize, cacheVars, storeVars, auxVars, ed, an, hist>>

SearchInProject_Implicit(root, q, caseSensitive, includeStructure, maxResults) ==
  /\ calls' = calls + 1
  /\ IF ~SearchProjectSchema(root, q)
     THEN /\ eret' = QueryRaised("searchInProject", root, <<q, caseSensitive, includeStructure>>,
                                     "VALIDATION_ERROR")
          /\ UNCHANGED projectCache
     ELSE \E g \in {getProjectContext(projectCache, root, now)} :
            /\ projectCache' = g.c
            /\ eret' = IF ~g.hit
                       THEN SearchReturned(root, <<q, caseSensitive, includeStructure>>, maxResults,
                                           [results |-> {}, scanned |-> <<>>])
                       ELSE IF BadRegExp(q)
                       THEN QueryRaised("searchInProject", root, <<q, caseSensitive, includeStructure>>, "SyntaxError")
                       ELSE SearchReturned(root, <<q, caseSensitive, includeStructure>>,
                                           maxResults,
                                           SearchResultsOf(g.data, q, caseSensitive,
                                                           includeStructure, maxResults))
  /\ UNCHANGED <<now, maxCacheSize, cacheVars, storeVars, auxVars, ed, an, hist>>

\* searchInProject(projectPath, query, {caseSensitive, includeStructure,
\* maxResults})
SearchInProject(root, q, caseSensitive, includeStructure, maxResults) ==
  /\ calls' = calls + 1
  /\ IF ~SearchProjectSchema(root, q)
     THEN /\ eret' = QueryRaised("searchInProject", root, <<q, caseSensitive, includeStructure>>,
                                     "VALIDATION_ERROR")
          /\ UNCHANGED projectCache
     ELSE \E g \in {getProjectContext(projectCache, root, now)} :
            /\ projectCache' = g.c
            /\ eret' = IF ~g.hit THEN NotAnalyzed("searchInProject", root, <<q, caseSensitive, includeStructure>>)
                       ELSE IF BadRegExp(q)
                       THEN QueryRaised("searchInProject", root, <<q, caseSensitive, includeStructure>>, "SyntaxError")
                       ELSE SearchReturned(root, <<q, caseSensitive, includeStructure>>,
                                           maxResults,
                                           SearchResultsOf(g.data, q, caseSensitive,
                                                           includeStructure, maxResults))
  /\ UNCHANGED <<now, maxCacheSize, cacheVars, storeVars, auxVars, ed, an, hist>>

\* getFileRelationships(projectPath, targetFilePath)
GetFileRelationships(root, target) ==
  /\ calls' = calls + 1
  /\ IF ~GetFileRelationshipsSchema(root, target)
     THEN /\ eret' = QueryRaised("getFileRelationships", root, target, "VALIDATION_ERROR")
          /\ UNCHANGED projectCache
     ELSE \E g \in {getProjectContext(projectCache, root, now)} :
            /\ projectCache' = g.c
            /\ eret' = IF ~g.hit THEN NotAnalyzed("getFileRelationships", root, target)
                       ELSE QueryReturned("getFileRelationships", root, target,
                                          RelationshipsOf(g.data, target))
  /\ UNCHANGED <<now, maxCacheSize, cacheVars, storeVars, auxVars, ed, an, hist>>

\* the statistics of a context and its relationships
StatsOf(context, relationships) ==
  [totalFiles |-> Cardinality(DOMAIN context.files),
   languages |-> context.structure.languages,
   orphanedFiles |-> {r \in DOMAIN relationships :
                        /\ relationships[r].dependencies = {}
                        /\ relationships[r].dependents = {}},
   totalDependencies |->
     Cardinality(UNION {{<<r, d>> : d \in relationships[r].dependencies} :
                          r \in DOMAIN relationships})]

\* getProjectStats(projectPath): the context is looked up, then
\* getFileRelationships(projectPath) validates the path and looks it up again
GetProjectStats(root) ==
  /\ calls' = calls + 1
  /\ \E g \in {getProjectContext(projectCache, root, now)} :
        IF ~g.hit
        THEN /\ projectCache' = g.c
             /\ eret' = NotAnalyzed("getProjectStats", root, <<>>)
        ELSE IF ~GetFileRelationshipsSchema(root, <<>>)
        THEN /\ projectCache' = g.c
             /\ eret' = QueryRaised("getProjectStats", root, <<>>, "VALIDATION_ERROR")
        ELSE \E h \in {getProjectContext(g.c, root, now)} :
               /\ projectCache' = h.c
               /\ eret' = QueryReturned("getProjectStats", root, <<>>,
                                        StatsOf(g.data, RelationshipsOf(h.data, <<>>)))
  /\ UNCHANGED <<now, maxCacheSize, cacheVars, storeVars, auxVars, ed, an, hist>>

\* more than an hour passes
Elapse ==
  /\ now < MaxEngineHours * (CacheTTL + 1)
  /\ now' = now + CacheTTL + 1
  /\ UNCHANGED <<maxCacheSize, cacheVars, storeVars, engineVars>>

(***************************************************************************)
(* SpecEngine: analyzeProject, editMultipleFiles and clearAllCaches on the *)
(* project p (/w/p), interleaved                                           *)
(***************************************************************************)
EngineRoots == {Rel(<<"p">>), EmptyPath}

EngineEdits ==
  {<<Chg(<<"a.ts">>, "update", "c2", FALSE)>>,
   <<Chg(<<"b.ts">>, "create", "cT", FALSE)>>}

TaskFaults == {"none", "stat", "analyzer"}

\* the searches offered: [query, caseSensitive, includeStructure]
EngineSearches ==
  {<<"f", FALSE, TRUE>>, <<"G", TRUE, FALSE>>, <<"", FALSE, TRUE>>, <<"(", FALSE, TRUE>>}

\* the target files offered to getFileRelationships
EngineTargets == {<<>>, <<Rel(<<"a.ts">>)>>, <<Rel(<<"..", "x.ts">>)>>}

NextEngine ==
  \/ \E root \in EngineRoots, force \in BOOLEAN :
        calls < MaxEngineCalls /\ AnalyzeCall(root, force)
  \/ \E fault \in {"none", "glob"} : AnalyzeFind(fault)
  \/ AnalyzeMeta
  \/ \E f \in an.pending, fault \in TaskFaults : TaskResolve(f, fault)
  \/ \E changes \in EngineEdits : calls < MaxEngineCalls /\ EditCall(Rel(<<"p">>), changes)
  \/ \E fault \in {"none", "write"} : EditStep(fault)
  \/ calls < MaxEngineCalls /\ ClearAllCaches
  \/ \E root \in EngineRoots : calls < MaxEngineCalls /\ GetProjectContext(root)
  \/ \E root \in EngineRoots, q \in EngineSearches :
        calls < MaxEngineCalls
        /\ SearchInProject(root, q[1], q[2], q[3], Halves(DefaultMaxResults))
  \/ \E target \in EngineTargets :
        calls < MaxEngineCalls /\ GetFileRelationships(Rel(<<"p">>), target)
  \/ \E root \in EngineRoots : calls < MaxEngineCalls /\ GetProjectStats(root)
  \/ Elapse

SpecEngine == InitStore /\ [][NextEngine]_vars

(***************************************************************************)
(* SpecBatch: analyzeProject on the project q (/w/q), which holds more     *)
(* files than one batch                                                    *)
(***************************************************************************)
InitBatch ==
  /\ now = 0
  /\ maxCacheSize \in StoreMaxSizes
  /\ InitCacheVars
  /\ \E c \in {"c1", "cT"} :
        fs = [InitFs EXCEPT !.files =
                [f \in {GlobOrder[k] :
                          k \in (Len(GlobOrder) - MaxBatchFiles + 1)..Len(GlobOrder)}
                   |-> [content |-> IF f = <<"w", "q", "a.ts">> THEN c ELSE "c1"]],
              !.dirs = @ \cup {<<"w", "q">>}]
  /\ fileCache = EmptyCache
  /\ sret = NoSRet
  /\ InitEngineVars

NextBatch ==
  \/ calls < MaxBatchCalls /\ AnalyzeCall(Rel(<<"q">>), FALSE)
  \/ AnalyzeFind("none")
  \/ AnalyzeMeta
  \/ \E f \in an.pending, fault \in {"none", "stat"} : TaskResolve(f, fault)

SpecBatch == InitBatch /\ [][NextBatch]_vars

\* SpecBatchLive: the same, every file task that awaits the disk being
\* answered in the end (stat and readFile settle, with a result or an error)
SpecBatchLive ==
  /\ InitBatch
  /\ [][NextBatch]_vars
  /\ WF_vars(\/ \E f \in an.pending : TaskResolve(f, "stat")
             \/ \E f \in an.pending : TaskResolve(f, "none"))

(***************************************************************************)
(* SpecSearch: searchInProject on the project p (/w/p) with three files,   *)
(* one of them with more matching lines than a result may hold             *)
(***************************************************************************)
InitSearch ==
  /\ now = 0
  /\ maxCacheSize \in StoreMaxSizes
  /\ InitCacheVars
  /\ fs = [InitFs EXCEPT !.files =
             (<<"w", "p", "a.ts">> :> [content |-> "c1"]
              @@ <<"w", "p", "b.ts">> :> [content |-> "cM"]
              @@ <<"w", "p", "c.ts">> :> [content |-> "c2"])]
  /\ fileCache = EmptyCache
  /\ sret = NoSRet
  /\ InitEngineVars

\* the values of maxResults offered, in halves: -1, 0, 1, 1.5, 2 and 100
SearchMaxResults == {Halves(-1), Halves(0), Halves(1), 3, Halves(2), Halves(DefaultMaxResults)}

NextSearch ==
  \/ calls < MaxSearchCalls /\ AnalyzeCall(Rel(<<"p">>), FALSE)
  \/ AnalyzeFind("none")
  \/ AnalyzeMeta
  \/ \E f \in an.pending, fault \in {"none", "stat"} : TaskResolve(f, fault)
  \/ \E q \in {"f", "g"}, includeStructure \in BOOLEAN, maxResults \in SearchMaxResults :
        calls < MaxSearchCalls
        /\ SearchInProject(Rel(<<"p">>), q, FALSE, includeStructure, maxResults)

SpecSearch == InitSearch /\ [][NextSearch]_vars

(***************************************************************************)
(* Properties of the cache instance (Spec)                                 *)
(***************************************************************************)
\* ranks are pairwise distinct, so the sort of enforceMaxSize has no ties
RanksUnique ==
  \A a, b \in DOMAIN cm.accessOrder : cm.accessOrder[a] = cm.accessOrder[b] => a = b

\* C1: in every state a cache with maxSize >= 1 reaches through set/get/has/
\* delete/cleanup/clear, and so after each set, it holds at most maxSize
\* entries; a set issued while maxSize entries were held has evicted at least
\* one of them, and the key it inserted is held.
C1_CacheBound ==
  /\ CM_size(cm) <= maxCacheSize
  /\ ret.op = "set" => ret.key \in DOMAIN cm.cache
  /\ (ret.op = "set" /\ ret.sizeBefore >= maxCacheSize) => ret.evicted # {}

\* a set at the limit has evicted and the cache is full again
C1_Witness ==
  ret.op = "set" /\ ret.evicted # {} /\ CM_size(cm) = maxCacheSize /\ maxCacheSize > 1

\* C7: whenever a set evicts, every evicted key was accessed (live get hit or
\* set) less recently than every key that survives the eviction.
C7_LRUPreference ==
  [][(ret'.op = "set" /\ ret'.evicted # {})
        => \A e \in ret'.evicted : \A s \in DOMAIN cm.cache \ ret'.evicted :
              IndexOf(recency, e) < IndexOf(recency, s)]_vars

\* a set evicted one key and spared another that was held before it
C7_Witness ==
  /\ ret.op = "set" /\ ret.evicted # {}
  /\ DOMAIN cm.cache \ {ret.key} # {}

\* C8: for a held entry with an expiry, get and has hit (get returning the
\* stored value) as long as Date.now() <= expiresAt, and miss as soon as
\* Date.now() > expiresAt, that first miss removing the entry and its access
\* rank; set(k, v, ttl) with ttl > 0 stores expiresAt = Date.now() + ttl.
C8_Expiry ==
  [][/\ (ret'.op = "set" /\ ret'.ttl > 0)
          => cm'.cache[ret'.key].expiresAt = now + ret'.ttl
     /\ (ret'.op \in {"get", "has"} /\ ret'.key \in DOMAIN cm.cache
         /\ cm.cache[ret'.key].expiresAt # 0)
          => IF now <= cm.cache[ret'.key].expiresAt
             THEN /\ ret'.hit
                  /\ ret'.op = "get" => ret'.data = cm.cache[ret'.key].data
                  /\ ret'.key \in DOMAIN cm'.cache
             ELSE /\ ~ret'.hit
                  /\ ret'.data = Undefined
                  /\ ret'.key \notin DOMAIN cm'.cache
                  /\ ret'.key \notin DOMAIN cm'.accessOrder]_vars

\* a get or has has just missed on a key that was held: the entry had expired
C8_Witness ==
  /\ ret.op \in {"get", "has"} /\ ret.wasHeld /\ ~ret.hit
  /\ ret.key \notin DOMAIN cm.cache

\* the keys of c whose entry has not expired at time t
LiveKeys(c, t) == {k \in DOMAIN c.cache : ~IsExpired(c.cache[k], t)}

\* C24: a set made while the cache holds fewer than maxSize entries that
\* have not expired removes none of them, however many expired entries are
\* still held.  (Violated: enforceMaxSize compares cache.size, which counts
\* the expired entries not yet swept, and removes the least recently used
\* key, live or not.)
C24_EvictionTrigger ==
  [][(ret'.op = "set" /\ Cardinality(LiveKeys(cm, now)) < maxCacheSize)
       => LiveKeys(cm, now) \ {ret'.key} \subseteq DOMAIN cm'.cache]_vars

\* the cache holds under k an entry whose expiresAt has passed
HoldsExpired(k) == k \in DOMAIN cm.cache /\ IsExpired(cm.cache[k], now)

\* C25: with the cleanup timer firing again and again, an entry whose
\* expiresAt has passed does not stay in the cache, whether or not a get or
\* has is ever made for its key.
C25_CleanupLiveness == \A k \in Keys : HoldsExpired(k) ~> ~HoldsExpired(k)

\* the timer has swept an entry that no get or has had removed
C25_Witness ==
  /\ ret.op = "timer" /\ ret.removed > 0
  /\ \A k \in Keys : ~HoldsExpired(k)

\* C26: right after clear(), getStats().size is 0 and get and has miss for
\* every key the cache held; a clear() that follows a clear() leaves the
\* cache as it is.
C26_IdempotentClear ==
  [][ret'.op = "clear"
       => /\ CM_getStats(cm', maxCacheSize).size = 0
          /\ \A k \in DOMAIN cm.cache :
                ~CM_get(cm', k, now').hit /\ ~CM_has(cm', k, now').result
          /\ ret.op = "clear" => cm' = cm]_vars

\* clear() has emptied a cache that held entries
C26_Witness ==
  /\ ret.op = "clear" /\ ret.sizeBefore > 0
  /\ CM_getStats(cm, maxCacheSize).size = 0
  /\ \A k \in Keys : ~CM_get(cm, k, now).hit

(***************************************************************************)
(* Properties of the file store (SpecStore)                                *)
(***************************************************************************)
\* the file system and the file cache are as they were
StoreUntouched == fs' = fs /\ fileCache' = fileCache

\* C5: readFile, writeFile and deleteFile reject every path that has a '..'
\* segment with INVALID_PATH, leaving file system, backups and cache as
\* they were.  (Violated: validatePath looks for '..' after path.normalize,
\* which has cancelled the '..' of /w/p/d/../a.ts.)
C5_RejectsEveryDotDotSegment ==
  [][(sret'.op \in {"read", "write", "delete"}
      /\ \E i \in 1..Len(sret'.path.segs) : sret'.path.segs[i] = "..")
        => (sret'.err = "INVALID_PATH" /\ StoreUntouched)]_vars

\* the absolute path a store call resolves its path to
AbsPathOf(p) == resolve(validatePath(p).path)

\* the cached content of every path that was written or deleted is the
\* content last written
CacheCoherent(c, last) ==
  \A k \in DOMAIN last :
    ContentKey(AbsOf(k)) \in DOMAIN c.cache
      => /\ last[k].op = "write"
         /\ c.cache[ContentKey(AbsOf(k))].data = last[k].content

Oversized(p) ==
  /\ AbsPathOf(p).segs \in DOMAIN fs.files
  /\ SizeOf(fs.files[AbsPathOf(p).segs].content) > maxFileSize

\* the read is not served from the cache
ReadMisses ==
  ~sret'.useCache \/ ~Truthy(CM_get(fileCache, ContentKey(AbsPathOf(sret'.path)), now).data)

StatusOf(action) ==
  CASE action = "create" -> "created"
    [] action = "update" -> "updated"
    [] action = "delete" -> "deleted"
    [] OTHER -> "none"

\* the returned results are one per change, in input order; each is the
\* action's status with the disk showing the change after its turn, or error
OnePerChange ==
  /\ ~eret.raised
  /\ Len(eret.results) = Len(eret.changes)
  /\ \A i \in 1..Len(eret.changes) :
        /\ eret.results[i].file = eret.changes[i].filePath
        /\ \/ eret.results[i].status = "error"
           \/ /\ eret.results[i].status = StatusOf(eret.changes[i].action)
              /\ eret.applied[i]

IsUnder(root, segs) == Len(segs) >= Len(root) /\ SubSeq(segs, 1, Len(root)) = root

\* C27: validateProjectBoundaries(candidate, root) is true if and only if
\* the resolved candidate is the resolved root or lies under it, segment by
\* segment.  (Violated: for the root / the prefix compared is '//', which
\* no resolved path starts with, so every path but / itself is refused.)
C27_ValidateBoundary ==
  eret.op = "validateProjectBoundaries"
    => (eret.result <=> IsUnder(resolve(eret.projectRoot).segs, resolve(eret.filePath).segs))

\* the files a step creates, overwrites or deletes
TouchedFiles ==
  {f \in DOMAIN fs.files \cup DOMAIN fs'.files :
     \/ f \notin DOMAIN fs.files
     \/ f \notin DOMAIN fs'.files
     \/ fs.files[f] # fs'.files[f]}

\* the directories of the backup files a step writes
TouchedBackupDirs ==
  {k.dir \o <<backupDirectory, k.day>> :
     k \in {b \in DOMAIN fs'.backups :
              b \notin DOMAIN fs.backups \/ fs.backups[b] # fs'.backups[b]}}

\* C6: every file a step of an editMultipleFiles(root, changes) call creates,
\* overwrites or deletes, and every backup file it writes, lies at or under
\* the resolved root; a change whose resolved path lies outside the root
\* touches no file.
C6_ProjectBoundary ==
  [][/\ (TouchedFiles \cup TouchedBackupDirs) # {} => ed.pc = "loop"
     /\ \A f \in TouchedFiles \cup TouchedBackupDirs : IsUnder(ProjectKey(ed.root), f)
     /\ (ed.pc = "loop"
         /\ ~IsUnder(ProjectKey(ed.root), resolve2(ed.root, ed.changes[ed.i].filePath).segs))
          => (TouchedFiles \cup TouchedBackupDirs) = {}]_vars

\* a call has deleted a.ts under the root after writing its backup under
\* the root, and x.ts outside the root is as it was
C6_Witness ==
  /\ eret.op = "edit" /\ ~eret.raised
  /\ \E i \in 1..Len(eret.results) : eret.results[i].status = "deleted"
  /\ <<"w", "p", "a.ts">> \notin DOMAIN fs.files
  /\ \E k \in DOMAIN fs.backups : k.dir = <<"w", "p">> /\ k.name = "a.ts"
  /\ fs.files[<<"w", "x.ts">>] = InitFs.files[<<"w", "x.ts">>]

\* the results pushed once the step is taken
ResultsAfter == IF ed'.pc = "loop" THEN ed'.results ELSE eret'.results

\* the path the change the loop is at resolves to
PathAt == resolve2(ed.root, ed.changes[ed.i].filePath).segs

\* C11: the loop of editMultipleFiles takes the changes in the order of the
\* list, one per step: the step at change i starts when each of the changes
\* 1..i-1 has pushed its result, creates, overwrites or deletes no file but
\* the one change i names, pushes the result of change i and moves to change
\* i+1 (or returns after the last one); nothing else alters the disk in
\* between, so change i+1 starts from the disk change i left.
C11_EditOrdering ==
  [][/\ fs' # fs => ed.pc = "loop"
     /\ (ed.pc = "loop" /\ ed' # ed)
          => /\ Len(ed.results) = ed.i - 1
             /\ TouchedFiles \subseteq {PathAt}
             /\ Len(ResultsAfter) = ed.i
             /\ SubSeq(ResultsAfter, 1, ed.i - 1) = ed.results
             /\ ResultsAfter[ed.i].file = ed.changes[ed.i].filePath
             /\ IF ed.i < Len(ed.changes)
                THEN ed'.pc = "loop" /\ ed'.i = ed.i + 1
                ELSE ed'.pc = "idle" /\ eret'.op = "edit"]_vars

\* [create d/c.ts, create d/c.ts] has returned [created, created]: the second
\* change found the file the first one wrote and backed it up
C11_Witness ==
  /\ eret.op = "edit" /\ ~eret.raised /\ Len(eret.results) = 2
  /\ eret.results[1].status = "created" /\ eret.results[2].status = "created"
  /\ \E k \in DOMAIN fs.backups :
        k.dir = <<"w", "p", "d">> /\ k.name = "c.ts" /\ fs.backups[k] = "c2"

\* the I/O call that fails in the step of the loop that is taken
StepFault == IF ed'.pc = "loop" THEN ed'.faults[ed.i] ELSE eret'.faults[ed.i]

\* the backup files a step adds
NewBackups == DOMAIN fs'.backups \ DOMAIN fs.backups

\* the step of the loop reaches createBackup for a file that exists and no
\* I/O call of the backup fails
BacksUp ==
  /\ ed.pc = "loop" /\ ed' # ed
  /\ ed.changes[ed.i].backup
  /\ PathAt \in DOMAIN fs.files
  /\ IsUnder(ProjectKey(ed.root), PathAt)
  /\ SizeOf(ContentOf(ed.changes[ed.i])) <= maxFileSize
  /\ StepFault # "backup"

\* C12: a write or delete with backup=true of a file that exists, whose
\* backup is written, adds exactly one backup file, under the backup
\* directory of the day next to the file, holding the content the file had;
\* when the write or unlink that follows fails the file is as it was (the
\* backup came first), otherwise the file holds the new content or is gone.
\* (Violated: a second backup of the same file within the same millisecond
\* is written over the first one, so no backup file is added.)
C12_BackupBeforeOverwrite ==
  [][BacksUp =>
       /\ \E k \in NewBackups :
             /\ NewBackups = {k}
             /\ k.dir \o <<k.name>> = PathAt
             /\ k.day = DayOf(now)
             /\ fs'.backups[k] = fs.files[PathAt].content
       /\ IF StepFault # "none" THEN fs'.files = fs.files
          ELSE IF ed.changes[ed.i].action = "delete" THEN PathAt \notin DOMAIN fs'.files
          ELSE fs'.files[PathAt].content = ContentOf(ed.changes[ed.i])]_vars

\* the step of the loop pushes an error result
ChangeFails == ed.pc = "loop" /\ ed' # ed /\ ResultsAfter[ed.i].status = "error"

\* the files and directories are as they were, or more directories
FilesKept == fs'.files = fs.files /\ fs.dirs \subseteq fs'.dirs

\* C14: when a change of an editMultipleFiles call fails, what the earlier
\* changes left on disk stays as they left it: every file has the content
\* it had, no file appears or disappears, no directory is removed, and
\* every backup file is there with the content it had.  (Violated: the
\* backup the failing change writes before its write fails replaces the
\* backup an earlier change of the same file wrote in the same millisecond.)
C14_NoRollback ==
  [][ChangeFails
       => /\ FilesKept
          /\ \A k \in DOMAIN fs.backups :
                k \in DOMAIN fs'.backups /\ fs'.backups[k] = fs.backups[k]]_vars

\* the step of the loop applies a change with backup=true to a file that
\* exists, and an I/O call of createBackup fails
BackupFails ==
  /\ ed.pc = "loop" /\ ed' # ed
  /\ ed.changes[ed.i].backup
  /\ PathAt \in DOMAIN fs.files
  /\ StepFault = "backup"

\* C19: when the backup of a write or delete with backup=true fails, the
\* change goes on as it does without a backup: if the write or delete is one
\* that succeeds when nothing fails, the file is written or removed and the
\* result pushed is created, updated or deleted; in every case the result
\* is the one pushed when nothing fails, and no backup file is written.
C19_BackupFailureNonFatal ==
  [][BackupFails =>
       \E c \in {ed.changes[ed.i]} :
       \E none \in {ApplyChange(fs, fileCache, ed.root, c, now, "none", maxCacheSize)} :
          /\ ResultsAfter[ed.i] = EditResultOf(c, none.err)
          /\ fs'.files = none.fs.files
          /\ fs'.backups = fs.backups
          /\ none.err = "" => /\ ResultsAfter[ed.i].status \in {"created", "updated", "deleted"}
                              /\ Reflects(fs', ed.root, c)]_vars

\* a.ts was deleted with backup=true, the backup failed: the result is
\* deleted, the file is gone and there is no backup of it
C19_Witness ==
  /\ eret.op = "edit" /\ ~eret.raised
  /\ \E i \in 1..Len(eret.results) :
        /\ eret.changes[i] = Chg(<<"a.ts">>, "delete", Undefined, TRUE)
        /\ eret.faults[i] = "backup"
        /\ eret.results[i].status = "deleted"
  /\ <<"w", "p", "a.ts">> \notin DOMAIN fs.files
  /\ DOMAIN fs.backups = {}

\* C20: every step keeps every backup file, with the content it has, and
\* every step that backs a file up adds one backup file that was not there.
\* (Violated: the name of a backup file carries the time to the
\* millisecond, so the second backup of a file within one millisecond has
\* the name of the first and fs.writeFile replaces its content.)
C20_BackupsNeverOverwritten ==
  [][/\ \A k \in DOMAIN fs.backups :
           k \in DOMAIN fs'.backups /\ fs'.backups[k] = fs.backups[k]
     /\ BacksUp => Cardinality(NewBackups) = 1]_vars

\* the step is a call of editMultipleFiles, with this change list
IsEditCall == ed.pc = "idle" /\ calls' = calls + 1 /\ (ed'.pc = "loop" \/ eret'.op = "edit")
CallChanges == IF ed'.pc = "loop" THEN ed'.changes ELSE eret'.changes

\* the change list has a path that is absolute or contains '..', an action
\* that is none of create, update and delete, or no or too many changes
InvalidShape(changes) ==
  \/ Len(changes) = 0
  \/ Len(changes) > SchemaMaxChanges
  \/ \E i \in 1..Len(changes) :
        \/ isAbsolute(changes[i].filePath)
        \/ includesDotDot(StrOf(changes[i].filePath))
        \/ changes[i].action \notin {"create", "update", "delete"}

\* C15: a call of editMultipleFiles whose change list has a path that is
\* absolute or contains '..', an action outside create/update/delete, no
\* change or more than 50 changes throws for the whole list: the loop is not
\* entered and the disk and the file cache are as they were.  (Violated:
\* FilePathSchema looks for '..' after path.normalize, so d/../a.ts passes
\* and the change is applied.)
C15_BatchValidationFirst ==
  [][(IsEditCall /\ InvalidShape(CallChanges))
       => /\ eret'.op = "edit" /\ eret'.raised
          /\ ed' = ed
          /\ StoreUntouched]_vars

(***************************************************************************)
(* Properties of the project cache (SpecEngine)                            *)
(***************************************************************************)
\* C13: when the loop of editMultipleFiles(root, changes) has gone through
\* its changes and the call returns, the project cache holds no entry under
\* the resolved root, whether the changes succeeded or failed.
C13_InvalidationRegardless ==
  [][(ed.pc = "loop" /\ ed'.pc = "idle")
       => /\ eret'.op = "edit" /\ ~eret'.raised
          /\ ProjectKey(ed.root) \notin DOMAIN projectCache'.cache
          /\ ProjectKey(ed.root) \notin DOMAIN projectCache'.accessOrder]_vars

\* a call whose only change failed has returned and has deleted the context
\* an earlier analysis had cached
C13_Witness ==
  /\ eret.op = "edit" /\ ~eret.raised
  /\ \A i \in 1..Len(eret.results) : eret.results[i].status = "error"
  /\ eret.invalidated
  /\ ProjectKey(eret.root) \notin DOMAIN projectCache.cache

(***************************************************************************)
(* Properties of analyzeProject (SpecEngine, SpecBatch)                    *)
(***************************************************************************)
\* the FileInfo shows the content, hash, size and line count of the file
ShowsDisk(info, f) ==
  /\ info.content = fs.files[f].content
  /\ info.hash = generateFileHash(fs.files[f].content)
  /\ info.size = SizeOf(fs.files[f].content)
  /\ info.lines = LinesOf(fs.files[f].content)

\* the key under which a context holds the file f
RelOf(root, f) == relative(root, AbsOf(f)).segs

\* C2: when an analyze(root, forceRefresh=false) that no edit overlapped has
\* gone through the file system and returned, every file of its context
\* that an editMultipleFiles call had successfully updated after an earlier
\* analysis shows the content, hash, size and line count the file has on
\* disk.  (Violated: getFileInfo serves the fileInfo entry cached by the
\* earlier analysis, which writeFile does not invalidate.)
C2_EditedFileReanalysed ==
  (eret.op = "analyze" /\ ~eret.raised /\ ~eret.force /\ eret.enumerated /\ ~eret.overlap)
    => \A f \in eret.updated :
         (f \in DOMAIN fs.files /\ RelOf(eret.root, f) \in DOMAIN eret.context.files)
           => ShowsDisk(eret.context.files[RelOf(eret.root, f)], f)

\* C4: when some of the enumerated files fail to be read or analyzed,
\* analyze does not raise and returns a context whose files map holds
\* exactly the files that did not fail.  (Violated: a file that is analyzed
\* and has a function named like a member of Object.prototype makes
\* buildProjectStructure throw, and analyze raises.)
C4_BatchIsolation ==
  (eret.op = "analyze" /\ eret.enumerated /\ eret.failed # {})
    => /\ ~eret.raised
       /\ DOMAIN eret.context.files =
            {RelOf(eret.root, eret.files[k]) :
               k \in {j \in 1..Len(eret.files) : eret.files[j] \notin eret.failed}}

\* the step is a call of analyzeProject
IsAnalyzeCall ==
  an.pc = "idle" /\ calls' = calls + 1 /\ (an'.pc = "find" \/ eret'.op = "analyze")
CallRoot == IF an'.pc = "find" THEN an'.root ELSE eret'.root
CallForce == IF an'.pc = "find" THEN an'.force ELSE eret'.force

\* the project cache holds a context for the root that has not expired
LiveContext(root) ==
  /\ ProjectKey(root) \in DOMAIN projectCache.cache
  /\ ~IsExpired(projectCache.cache[ProjectKey(root)], now)

\* C9: a call analyze(root, forceRefresh=false) made while the project cache
\* holds a live context for the resolved root returns that context in the
\* same step: no findFiles, file task or analyzer call is begun, the disk
\* and the file cache are untouched, and the cache entry is the one that
\* was held.
C9_CacheHit ==
  [][(IsAnalyzeCall /\ ~CallForce /\ LiveContext(CallRoot))
        => /\ eret'.op = "analyze" /\ ~eret'.raised
           /\ eret'.context = projectCache.cache[ProjectKey(CallRoot)].data
           /\ an' = an
           /\ fs' = fs /\ fileCache' = fileCache
           /\ projectCache'.cache = projectCache.cache]_vars

\* analyze has returned the cached context of an earlier analysis
C9_Witness ==
  /\ eret.op = "analyze" /\ ~eret.raised /\ eret.cached
  /\ DOMAIN eret.context.files # {}
  /\ ProjectKey(eret.root) \in DOMAIN projectCache.cache
  /\ projectCache.cache[ProjectKey(eret.root)].data = eret.context

\* the step is a call of searchInProject, getFileRelationships or
\* getProjectStats
IsLookup ==
  /\ calls' = calls + 1
  /\ eret'.op \in {"searchInProject", "getFileRelationships", "getProjectStats"}

\* the arguments of the lookup pass its schema (getProjectStats has none of
\* its own)
LookupAccepted ==
  CASE eret'.op = "searchInProject" -> SearchProjectSchema(eret'.root, eret'.args[1])
    [] eret'.op = "getFileRelationships" ->
         GetFileRelationshipsSchema(eret'.root, eret'.args)
    [] OTHER -> TRUE

\* C16: a call of searchInProject, getFileRelationships or getProjectStats
\* whose arguments pass validation, made while the project cache holds no
\* live context for the resolved root, is one step that raises the
\* 'Project not analyzed' error; it begins no analysis, leaves the disk and
\* the file cache untouched, and leaves the root without a context.
C16_RequiresPriorAnalysis ==
  [][(IsLookup /\ LookupAccepted /\ ~LiveContext(eret'.root))
        => /\ eret' = NotAnalyzed(eret'.op, eret'.root, eret'.args)
           /\ an' = an /\ ed' = ed
           /\ fs' = fs /\ fileCache' = fileCache
           /\ watchedProjects' = watchedProjects
           /\ ProjectKey(eret'.root) \notin DOMAIN projectCache'.cache]_vars

\* a search of the project fails with 'Project not analyzed' although a
\* context had been returned earlier: the entry has been invalidated, has
\* expired or was cleared
C16_Witness ==
  /\ eret = NotAnalyzed("searchInProject", Rel(<<"p">>), <<"f", FALSE, TRUE>>)
  /\ hist.analysed # {}
  /\ an.pc = "idle"
  /\ ProjectKey(Rel(<<"p">>)) \notin DOMAIN projectCache.cache

\* C17: analyze(root, forceRefresh=true) takes the context of the root out
\* of the project cache before it rebuilds it: while the forced analysis is
\* running, and after it has failed, the cache holds no live context for the
\* root, so getProjectContext and searchInProject are not served the old
\* one.  (Violated: forceRefresh only skips the cache read; the old entry
\* stays until projectCache.set replaces it.)
C17_ForceRefreshInvalidates ==
  /\ (an.pc # "idle" /\ an.force) => ~LiveContext(an.root)
  /\ (eret.op = "analyze" /\ eret.force /\ eret.raised /\ eret.err = "PROCESSING_ERROR")
       => ~LiveContext(eret.root)

\* C18: clearAllCaches() returns without raising and leaves the project
\* cache, the analysis cache and the file cache (entries and ranks) empty,
\* whatever they held and whatever is in flight; a getProjectContext made
\* right after it finds no context for any root.
C18_ClearAllCaches ==
  [][(calls' = calls + 1 /\ eret'.op = "clearAllCaches")
        => /\ ~eret'.raised
           /\ \A c \in {projectCache', analysisCache', fileCache'} :
                 DOMAIN c.cache = {} /\ DOMAIN c.accessOrder = {}
           /\ \A root \in EngineRoots : ~getProjectContext(projectCache', root, now').hit]_vars

\* clearAllCaches has emptied a project cache and a file cache that held
\* entries
C18_Witness ==
  /\ eret.op = "clearAllCaches"
  /\ eret.cleared.project > 0 /\ eret.cleared.file > 0
  /\ DOMAIN projectCache.cache = {} /\ DOMAIN fileCache.cache = {}

\* the step is a call of a lookup, or a step of editMultipleFiles
IsLookupOrEdit ==
  \/ /\ calls' = calls + 1
     /\ eret'.op \in {"getProjectContext", "searchInProject", "getFileRelationships",
                      "getProjectStats", "edit"}
  \/ ed' # ed

\* the step puts an entry in the project cache, or replaces one
StoresContext ==
  \E k \in DOMAIN projectCache'.cache :
     k \notin DOMAIN projectCache.cache \/ projectCache'.cache[k] # projectCache.cache[k]

\* C28: the only step that puts an entry in the project cache is the one
\* in which an analyzeProject call that went through the file system
\* returns its context; a step of getProjectContext, searchInProject,
\* getFileRelationships, getProjectStats or editMultipleFiles adds no
\* entry, and leaves the analysis in flight, if any, where it is and
\* begins none.
C28_CacheOnlyLookups ==
  [][/\ StoresContext
          => /\ an.pc \in {"meta", "batch"} /\ an'.pc = "idle"
             /\ eret'.op = "analyze" /\ ~eret'.raised /\ ~eret'.cached
             /\ DOMAIN projectCache'.cache \ DOMAIN projectCache.cache
                  \subseteq {ProjectKey(eret'.root)}
             /\ projectCache'.cache[ProjectKey(eret'.root)].data = eret'.context
     /\ IsLookupOrEdit
          => /\ ~StoresContext
             /\ an' = [an EXCEPT !.overlap = an'.overlap]]_vars

\* getProjectStats has answered from the context an analysis had stored,
\* and the entry is still the only one
C28_Witness ==
  /\ eret.op = "getProjectStats" /\ ~eret.raised
  /\ eret.value.totalFiles > 0
  /\ DOMAIN projectCache.cache = {ProjectKey(eret.root)}
  /\ an.pc = "idle"

\* the context the project cache holds under the key k shows, for every file
\* on disk that it holds, the content, hash, size and line count on disk
ContextShowsDisk(k) ==
  \A f \in DOMAIN fs.files :
     RelOf(AbsOf(k), f) \in DOMAIN projectCache.cache[k].data.files
       => ShowsDisk(projectCache.cache[k].data.files[RelOf(AbsOf(k), f)], f)

\* C29: once an analyze(root) that an editMultipleFiles call overlapped and
\* that call have both returned, the project cache holds no context for
\* the root that shows, for a file on disk, another content than the one
\* the edit left there: the root is uncached or its context was built
\* after the mutation.  (Violated: the analysis reads a file, the edit
\* rewrites it, deletes the project cache entry and returns, and the
\* analysis then stores the context it built from the earlier read.)
C29_EditAnalyzeRace ==
  (/\ an.pc = "idle" /\ ed.pc = "idle"
   /\ eret.op = "analyze" /\ ~eret.raised /\ eret.enumerated /\ eret.overlap)
    => (ProjectKey(eret.root) \in DOMAIN projectCache.cache
          => ContextShowsDisk(ProjectKey(eret.root)))

\* C30: clearAllCaches() leaves an analysis in flight where it stands (its
\* position, file list, dispatched and settled tasks), and when that
\* analysis later returns without raising, no call having been made in
\* that step, the project cache holds its context under its root.
C30_AnalysisSurvivesClear ==
  [][/\ (calls' = calls + 1 /\ eret'.op = "clearAllCaches")
          => /\ an' = [an EXCEPT !.cleared = an'.cleared]
             /\ (an.pc # "idle") => an'.cleared = an.pc
     /\ (an.pc # "idle" /\ an.cleared # "no" /\ an'.pc = "idle" /\ ~eret'.raised)
          => /\ calls' = calls
             /\ eret'.op = "analyze" /\ eret'.cleared = an.cleared
             /\ ProjectKey(eret'.root) \in DOMAIN projectCache'.cache
             /\ projectCache'.cache[ProjectKey(eret'.root)].data = eret'.context]_vars

\* an analysis whose batch was dispatched when clearAllCaches ran has
\* returned a context with files, and the project cache holds it
C30_Witness ==
  /\ eret.op = "analyze" /\ ~eret.raised /\ eret.cleared = "batch"
  /\ DOMAIN eret.context.files # {}
  /\ LiveContext(eret.root)
  /\ projectCache.cache[ProjectKey(eret.root)].data = eret.context
  /\ an.pc = "idle" /\ ed.pc = "idle"

\* the batch of the k-th file of the list
BatchOf(k) == (k - 1) \div BatchSize

\* C10: within one analyze call, a file task of a batch has started only if
\* every file task of every earlier batch has resolved (with a FileInfo or
\* with a failure).
C10_BatchBarrier ==
  \A j, k \in 1..Len(an.files) :
    (an.files[k] \in an.started /\ BatchOf(j) < BatchOf(k)) => an.files[j] \in an.resolved

\* the second batch is in flight, the first one has resolved with failures
C10_Witness ==
  /\ an.pc = "batch"
  /\ Len(an.files) > BatchSize
  /\ an.files[BatchSize + 1] \in an.pending
  /\ \E j \in 1..BatchSize : an.files[j] \in an.failed
  /\ \E j \in 1..BatchSize : an.files[j] \in an.resolved \ an.failed

\* the files at the places lo..hi of the list of the analysis a
Slice(a, lo, hi) == {a.files[k] : k \in {j \in 1..Len(a.files) : lo <= j /\ j <= hi}}

\* C31: at every moment of an analyze call at most 10 of its file tasks
\* await the disk, all of them in the slice of 10 last dispatched, and the
\* files dispatched so far are the first an.i - 1 of the list; a step that
\* dispatches tasks dispatches the next consecutive slices of at most 10
\* files, none of which had been dispatched before, and the call returns
\* only when every enumerated file has been dispatched.
C31_BoundedFanOut ==
  /\ [](/\ Cardinality(an.pending) <= BatchSize
        /\ an.pc = "batch"
              => /\ an.started = Slice(an, 1, an.i - 1)
                 /\ an.pending # {}
                 /\ an.pending \subseteq Slice(an, an.i - BatchSize, an.i - 1)
                 /\ (an.i - 1) % BatchSize = 0 \/ an.i - 1 = Len(an.files))
  /\ [][/\ (an.pc \in {"meta", "batch"} /\ an'.pc = "batch")
             => /\ an'.files = an.files
                /\ an'.started \ an.started = Slice(an, Cardinality(an.started) + 1, an'.i - 1)
                /\ (an'.pending \ an.pending) \cap an.started = {}
                /\ an.started \subseteq an'.started
        /\ (an.pc \in {"meta", "batch"} /\ an'.pc = "idle" /\ ~eret'.raised)
             => /\ an.pending \subseteq Slice(an, Len(an.files) - BatchSize + 1, Len(an.files))
                /\ Cardinality(an.pending) <= 1]_vars

\* the second and last slice awaits the disk after the ten tasks of the
\* first slice were in flight together and have all settled
C31_Witness ==
  /\ an.pc = "batch"
  /\ Len(an.files) > BatchSize /\ Len(an.files) <= 2 * BatchSize
  /\ an.pending = Slice(an, BatchSize + 1, Len(an.files))
  /\ an.started = Slice(an, 1, Len(an.files))
  /\ an.resolved = Slice(an, 1, BatchSize)

(***************************************************************************)
(* Properties of eviction (SpecEvict)                                      *)
(***************************************************************************)
\* the larger of two numbers
Max(a, b) == IF a >= b THEN a ELSE b

\* C32: a set issued while the cache holds maxSize entries or more removes
\* exactly max(1, floor(maxSize / 10)) of the entries held (all of them if
\* fewer are held), each of a lower access rank than every entry it
\* spares, and then inserts its key, which may be one of the removed; a
\* set issued below the limit removes nothing.
C32_EvictionAmount ==
  [][ret'.op = "set"
       => /\ ret'.evicted \subseteq DOMAIN cm.cache
          /\ DOMAIN cm'.cache = (DOMAIN cm.cache \ ret'.evicted) \cup {ret'.key}
          /\ Cardinality(ret'.evicted) =
               IF CM_size(cm) >= maxCacheSize
               THEN Min(Max(1, maxCacheSize \div 10), CM_size(cm))
               ELSE 0
          /\ \A e \in ret'.evicted : \A s \in DOMAIN cm.cache \ ret'.evicted :
                cm.accessOrder[e] < cm.accessOrder[s]
          /\ \A s \in DOMAIN cm.cache \ (ret'.evicted \cup {ret'.key}) :
                cm'.cache[s] = cm.cache[s]]_vars

\* a set on a cache configured for 20 entries has removed two of them
C32_Witness ==
  /\ ret.op = "set" /\ maxCacheSize = 20
  /\ Cardinality(ret.evicted) = 2
  /\ CM_size(cm) = maxCacheSize - 1

(***************************************************************************)
(* Properties of has, cleanup and set (Spec, SpecTimer)                    *)
(***************************************************************************)
\* C33: has(k) answers true exactly when the key is held and not expired,
\* which is when get(k) would hit; on an expired key it deletes the entry
\* as get does; on a live key it leaves the entries, every access rank and
\* the access counter as they are, so that any set made next evicts the
\* keys it would have evicted without the has.
C33_HasIsNoAccess ==
  [][ret'.op = "has"
       => /\ ret'.hit = (ret'.key \in DOMAIN cm.cache /\ ~IsExpired(cm.cache[ret'.key], now))
          /\ ret'.hit = CM_get(cm, ret'.key, now).hit
          /\ ~ret'.hit => cm' = CM_get(cm, ret'.key, now).c
          /\ ret'.hit
               => /\ cm'.cache = cm.cache
                  /\ cm'.accessOrder = cm.accessOrder
                  /\ cm'.accessCounter = cm.accessCounter
                  /\ Evicted(cm', maxCacheSize) = Evicted(cm, maxCacheSize)
                  /\ \A k \in Keys :
                       DOMAIN CM_set(cm', k, "v1", 0, now, maxCacheSize).cache =
                         DOMAIN CM_set(cm, k, "v1", 0, now, maxCacheSize).cache]_vars

\* has found live the key that the next set will evict, in a full cache of
\* two keys
C33_Witness ==
  /\ ret.op = "has" /\ ret.hit
  /\ CM_size(cm) = 2 /\ maxCacheSize = 2
  /\ Evicted(cm, maxCacheSize) = {ret.key}

\* the keys whose entry has a deadline that lies before the instant t
Passed(c, t) == {k \in DOMAIN c.cache : c.cache[k].expiresAt # 0 /\ c.cache[k].expiresAt < t}

\* C34: cleanup() removes exactly the entries whose expiresAt lies before
\* the instant of the call, with their access ranks, returns their number,
\* and leaves every other entry, its value, its deadline and its access
\* rank, and the access counter, as they were.
C34_CleanupExact ==
  [][ret'.op = "cleanup"
       => /\ DOMAIN cm'.cache = DOMAIN cm.cache \ Passed(cm, now)
          /\ DOMAIN cm'.accessOrder = DOMAIN cm.accessOrder \ Passed(cm, now)
          /\ ret'.removed = Cardinality(Passed(cm, now))
          /\ \A k \in DOMAIN cm'.cache :
                cm'.cache[k] = cm.cache[k] /\ cm'.accessOrder[k] = cm.accessOrder[k]
          /\ cm'.accessCounter = cm.accessCounter]_vars

\* cleanup has removed an expired entry and kept one that is at its deadline
C34_Witness ==
  /\ ret.op = "cleanup" /\ ret.removed = 1
  /\ \E k \in DOMAIN cm.cache : cm.cache[k].expiresAt = now

(***************************************************************************)
(* Properties of the context, of search and of a failing analysis          *)
(* (SpecEngine, SpecBatch)                                                 *)
(***************************************************************************)
\* the structure of the context counts the files, names their languages
\* and lists under every function name the files that define it
Aggregates(context) ==
  /\ context.structure.totalFiles = Cardinality(DOMAIN context.files)
  /\ context.structure.languages = {context.files[r].language : r \in DOMAIN context.files}
  /\ DOMAIN context.structure.functions =
       UNION {context.files[r].functions : r \in DOMAIN context.files}
  /\ \A n \in DOMAIN context.structure.functions :
        context.structure.functions[n] =
          {r \in DOMAIN context.files : n \in context.files[r].functions}

\* C35: every context analyze returns has totalFiles equal to the number
\* of its files, languages equal to the set of their languages and, under
\* every extracted function name, exactly the relative paths of the files
\* that list it; and no analyze call that has enumerated its files raises,
\* building the indexes being the one step after the enumeration that can
\* throw.  (Violated: a function named like a member of Object.prototype
\* makes buildProjectStructure throw.)
C35_Aggregation ==
  /\ (eret.op = "analyze" /\ ~eret.raised) => Aggregates(eret.context)
  /\ ~(eret.op = "analyze" /\ eret.raised /\ eret.enumerated)

\* the number of matches a result holds
MatchCount(r) == Cardinality(r.matches.lines) + Cardinality(r.matches.names)

\* every result holds between 1 and 20 matches, and the scan went no
\* further than the file that gave the last result allowed
WithinMatchLimit ==
  /\ \A r \in eret.value : 1 <= MatchCount(r) /\ MatchCount(r) <= MatchLimit
  /\ Halves(Cardinality(eret.value)) >= eret.maxResults
       => \/ eret.scanned = <<>>
          \/ eret.scanned[Len(eret.scanned)] \in {r.file : r \in eret.value}

\* C36: a searchInProject that returns holds at most maxResults results,
\* each of them with at least 1 and at most 20 matches, and has scanned no
\* file after the one that gave the maxResults-th result.
C36_SearchBounds ==
  (eret.op = "searchInProject" /\ ~eret.raised)
    => /\ Halves(Cardinality(eret.value)) <= eret.maxResults
       /\ WithinMatchLimit

\* C37: in every state the cache instance reaches through set, get, has,
\* delete and clear calls interleaved with the cleanup of the timer, each
\* of them one step, the keys that have an access rank are the keys held.
C37_RanksMatchKeys == DOMAIN cm.accessOrder = DOMAIN cm.cache

\* the timer has removed an expired entry between two calls and left
\* another entry in place
C37_Witness ==
  /\ ret.op = "timer" /\ ret.removed > 0
  /\ DOMAIN cm.cache # {}

\* C38: after set(k, v, ttl) the cache holds k with the value v, the
\* instant of the call and the deadline of this call alone (none without a
\* TTL), whatever it held for k and whether or not the set evicted, and a
\* get(k) made then, and the get(k) that is made as the next call, hits
\* and returns v.
C38_SetThenGet ==
  [][/\ ret'.op = "set"
          => /\ ret'.key \in DOMAIN cm'.cache
             /\ cm'.cache[ret'.key] =
                  [data |-> ret'.data, timestamp |-> now,
                   expiresAt |-> IF ret'.ttl > 0 THEN now + ret'.ttl ELSE 0]
             /\ CM_get(cm', ret'.key, now').hit
             /\ CM_get(cm', ret'.key, now').data = ret'.data
     /\ (ret.op = "set" /\ ret'.op = "get" /\ ret'.key = ret.key)
          => ret'.hit /\ ret'.data = ret.data]_vars

\* a set has replaced the key of lowest rank in a full cache with another
\* value, evicting the old entry of that very key, and the get that
\* follows would return the new value
C38_Witness ==
  /\ ret.op = "set" /\ ret.wasHeld /\ ret.evicted = {ret.key}
  /\ ret.data = "v2" /\ ret.ttl = 0
  /\ CM_size(cm) = 2
  /\ CM_get(cm, ret.key, now).data = "v2"

\* the step is the one in which an analyzeProject call raises
AnalyzeRaises ==
  /\ eret'.op = "analyze" /\ eret'.raised /\ an'.pc = "idle"
  /\ \/ an.pc # "idle"
     \/ an.pc = "idle" /\ calls' = calls + 1

\* the step belongs to an analyzeProject call and is not the one in which
\* it returns a context
AnalysisGoesOn ==
  \/ IsAnalyzeCall /\ an'.pc = "find"
  \/ an.pc # "idle" /\ an'.pc # "idle" /\ an' # [an EXCEPT !.overlap = an'.overlap,
                                                           !.cleared = an'.cleared]
  \/ AnalyzeRaises

ReturnedAndStored ==
  /\ an.pc = "idle"
  /\ eret.op = "analyze" /\ ~eret.raised /\ eret.enumerated
  /\ LiveContext(eret.root)
  /\ projectCache.cache[ProjectKey(eret.root)].data = eret.context

\* C40: if every dispatched file task is answered in the end, an analysis
\* whose batches are running passes every barrier and in the end returns,
\* its context stored in the project cache.  (Violated: when a file defines
\* a function named like a member of Object.prototype the analysis ends
\* by raising and stores nothing.)
C40_AnalysisTerminates == (an.pc = "batch") ~> ReturnedAndStored


\* What holds of the same analysis under SpecBatchLive: it always ends with
\* every enumerated file run through a batch; it returns and stores its
\* context whenever no file defines such a function; and the project cache
\* is written by the last task of the last batch only, once
AnalysisEnds ==
  (an.pc = "batch")
    ~> (an.pc = "idle" /\ eret.op = "analyze" /\ eret.enumerated
          /\ Len(eret.files) = MaxBatchFiles)

PlainAnalysisTerminates ==
  (an.pc = "batch" /\ fs.files[<<"w", "q", "a.ts">>].content = "c1")
    ~> ReturnedAndStored

StoresAtTheEndOnly ==
  [][StoresContext =>
       /\ an.pc = "batch" /\ an.pending # {}
       /\ an.i > Len(an.files)
       /\ an.started = Slice(an, 1, Len(an.files))
       /\ projectCache = EmptyCache]_vars
====
